---------------------------- MODULE Spec2Model ----------------------------
(***************************************************************************)
(* Model of the spatial-math value types of UE5-rs (src/src/types):        *)
(* VectorExt, Rotator, Transform and BoundingBox.                          *)
(*                                                                         *)
(* Every operation of the library is a pure function of its arguments.     *)
(* The state is the last call made on the library: `op` names the          *)
(* operation, `arg` holds its arguments and `res` its return value.  Each  *)
(* action draws the arguments from a bounded set and applies the           *)
(* operation as the source computes it.                                    *)
(*                                                                         *)
(* Numbers.  Two representations are used:                                 *)
(*  - Fx: binary fixed point with FracBits fractional bits (the raw        *)
(*    integer r stands for r / 2^FracBits).  It stands for the f32 / f64   *)
(*    values of the geometry code, whose rounding error is far below the   *)
(*    tolerances the code tests with; values that are dyadic rationals     *)
(*    are exact, the others are rounded as floats round them.              *)
(*  - Fl: a binary floating-point format with MantBits bits of mantissa    *)
(*    and exponents MinExp..MaxExp, with subnormals, signed infinities     *)
(*    and NaN, rounded to nearest-even.  It stands for f64 where the code  *)
(*    is about overflow, underflow and NaN (get_safe_normal).              *)
(***************************************************************************)
EXTENDS Integers, Sequences, FiniteSets, TLC

VARIABLES op, arg, res

vars == <<op, arg, res>>

\* The state before any call: nothing applied yet.
NoCall == "new"
Nothing == <<>>

InitNew == op = NoCall /\ arg = Nothing /\ res = Nothing

-----------------------------------------------------------------------------
(***************************************************************************)
(* Fx: fixed-point arithmetic on 32-bit integers                           *)
(***************************************************************************)

\* Fractional bits of the fixed-point representation.
FracBits == 19

ONE == 2^FracBits

HalfBits == FracBits - (FracBits \div 2)

HALF == 2^HalfBits

Abs(a) == IF a < 0 THEN -a ELSE a

Sgn(a) == IF a < 0 THEN -1 ELSE IF a > 0 THEN 1 ELSE 0

Min2(a, b) == IF a <= b THEN a ELSE b

Max2(a, b) == IF a >= b THEN a ELSE b

\* The integer n as a fixed-point value.
Fx(n) == n * ONE

\* x * y / ONE rounded to nearest, for x, y >= 0, computed in parts that stay
\* below 2^31.
MulMag(x, y) ==
    LET xi == x \div ONE
        xf == x % ONE
        yi == y \div ONE
        yf == y % ONE
        xh == xf \div HALF
        xl == xf % HALF
        k == ONE \div HALF
        ff == (xh * yf + ((xl * yf) \div HALF) + (k \div 2)) \div k
    IN  xi * yi * ONE + xi * yf + xf * yi + ff

\* a * b
FxMul(a, b) ==
    IF a = 0 \/ b = 0 THEN 0
    ELSE Sgn(a) * Sgn(b) * MulMag(Abs(a), Abs(b))

\* The n fractional bits of r / y, for 0 <= r < y.
RECURSIVE DivBits(_, _, _)
DivBits(r, y, n) ==
    IF n = 0 THEN 0
    ELSE LET r2 == 2 * r
             bit == IF r2 >= y THEN 1 ELSE 0
         IN  bit * 2^(n - 1) + DivBits(r2 - bit * y, y, n - 1)

\* a / b rounded to nearest, b # 0
FxDiv(a, b) ==
    LET x == Abs(a)
        y == Abs(b)
        frac == (DivBits(x % y, y, FracBits + 1) + 1) \div 2
    IN  Sgn(a) * Sgn(b) * ((x \div y) * ONE + frac)

\* The largest r in lo..hi-1 with r * r <= a.
RECURSIVE SqrtSearch(_, _, _)
SqrtSearch(lo, hi, a) ==
    IF hi - lo <= 1 THEN lo
    ELSE LET mid == lo + ((hi - lo) \div 2)
         IN  IF MulMag(mid, mid) <= a THEN SqrtSearch(mid, hi, a)
             ELSE SqrtSearch(lo, mid, a)

\* sqrt(a), a >= 0; the search stays below 45, the root of the largest value
\* the 32-bit intermediate products allow
FxSqrt(a) ==
    IF a <= 0 THEN 0 ELSE SqrtSearch(0, Min2(Max2(a, ONE) + 1, Fx(45)), a)

-----------------------------------------------------------------------------
(***************************************************************************)
(* Vector (glam DVec3 / Vec3): three components                            *)
(***************************************************************************)

Vec(x, y, z) == [x |-> x, y |-> y, z |-> z]

VecZERO == Vec(0, 0, 0)

VecONE == Vec(ONE, ONE, ONE)

VecAdd(a, b) == Vec(a.x + b.x, a.y + b.y, a.z + b.z)

VecSub(a, b) == Vec(a.x - b.x, a.y - b.y, a.z - b.z)

VecScale(a, s) == Vec(FxMul(a.x, s), FxMul(a.y, s), FxMul(a.z, s))

VecMulVec(a, b) == Vec(FxMul(a.x, b.x), FxMul(a.y, b.y), FxMul(a.z, b.z))

VecMin(a, b) == Vec(Min2(a.x, b.x), Min2(a.y, b.y), Min2(a.z, b.z))

VecMax(a, b) == Vec(Max2(a.x, b.x), Max2(a.y, b.y), Max2(a.z, b.z))

VecDot(a, b) == FxMul(a.x, b.x) + FxMul(a.y, b.y) + FxMul(a.z, b.z)

VecLengthSquared(a) == VecDot(a, a)

VecLength(a) == FxSqrt(VecLengthSquared(a))

-----------------------------------------------------------------------------
(***************************************************************************)
(* Angles and the libm functions the code calls (sin, cos, asin, atan2),   *)
(* in fixed point                                                          *)
(***************************************************************************)

\* pi with 20 fractional bits.
PI_Q20 == 3294199

PI == PI_Q20 \div 2^(20 - FracBits)

HALF_PI == PI \div 2

TWO_PI == 2 * PI

\* f32::to_radians / f32::to_degrees
to_radians(deg) == FxMul(FxDiv(deg, Fx(180)), PI)

to_degrees(rad) == FxDiv(FxMul(rad, Fx(180)), PI)

\* Rust's % on floats: the remainder has the sign of the dividend (fmod).
FxRem(a, b) == Sgn(a) * (Abs(a) % Abs(b))

\* sin on [-pi/2, pi/2]: the odd Taylor polynomial through x^11.
SinPoly(x) ==
    LET x2 == FxMul(x, x)
        p5 == ONE - (x2 \div 110)
        p4 == ONE - (FxMul(x2, p5) \div 72)
        p3 == ONE - (FxMul(x2, p4) \div 42)
        p2 == ONE - (FxMul(x2, p3) \div 20)
        p1 == ONE - (FxMul(x2, p2) \div 6)
    IN  FxMul(x, p1)

\* x brought into [-pi, pi] by whole turns.
WrapPi(x) ==
    LET r == FxRem(x, TWO_PI)
    IN  IF r > PI THEN r - TWO_PI ELSE IF r < -PI THEN r + TWO_PI ELSE r

Sin(x) ==
    LET r == WrapPi(x)
    IN  IF r > HALF_PI THEN SinPoly(PI - r)
        ELSE IF r < -HALF_PI THEN SinPoly(-PI - r)
        ELSE SinPoly(r)

Cos(x) == Sin(WrapPi(x) + HALF_PI)

\* The largest t in lo..hi-1 with sin(t) <= v, for 0 <= v.
RECURSIVE AsinSearch(_, _, _)
AsinSearch(lo, hi, v) ==
    IF hi - lo <= 1 THEN lo
    ELSE LET mid == lo + ((hi - lo) \div 2)
         IN  IF SinPoly(mid) <= v THEN AsinSearch(mid, hi, v)
             ELSE AsinSearch(lo, mid, v)

\* asin of v clamped to [-1, 1] (glam's asin_clamped), in [-pi/2, pi/2].
AsinClamped(v) ==
    LET c == Min2(Abs(v), ONE)
    IN  IF c = ONE THEN Sgn(v) * HALF_PI
        ELSE Sgn(v) * AsinSearch(0, HALF_PI + 1, c)

\* atan2(y, x) in [-pi, pi]: the angle of the direction (x, y), found from
\* the smaller of the two normalised components.
Atan2(y, x) ==
    IF x = 0 /\ y = 0 THEN 0
    ELSE LET r == FxSqrt(FxMul(x, x) + FxMul(y, y))
         IN  IF r = 0 THEN (IF Abs(y) > Abs(x) THEN Sgn(y) * HALF_PI
                            ELSE IF x > 0 THEN 0 ELSE (IF y < 0 THEN -PI ELSE PI))
             ELSE IF Abs(y) <= Abs(x)
                  THEN LET t == AsinClamped(FxDiv(y, r))
                       IN  IF x > 0 THEN t
                           ELSE IF y >= 0 THEN PI - t ELSE -PI - t
                  ELSE LET t == AsinClamped(FxDiv(x, r))
                       IN  IF y > 0 THEN HALF_PI - t ELSE t - HALF_PI

-----------------------------------------------------------------------------
(***************************************************************************)
(* Quaternion (glam Quat) and Rotator (src/src/types/rotator.rs)           *)
(***************************************************************************)

Quat(x, y, z, w) == [x |-> x, y |-> y, z |-> z, w |-> w]

QuatIDENTITY == Quat(0, 0, 0, ONE)

\* Quat * Quat (Hamilton product)
QuatMul(a, b) ==
    Quat(FxMul(a.w, b.x) + FxMul(a.x, b.w) + FxMul(a.y, b.z) - FxMul(a.z, b.y),
         FxMul(a.w, b.y) - FxMul(a.x, b.z) + FxMul(a.y, b.w) + FxMul(a.z, b.x),
         FxMul(a.w, b.z) + FxMul(a.x, b.y) - FxMul(a.y, b.x) + FxMul(a.z, b.w),
         FxMul(a.w, b.w) - FxMul(a.x, b.x) - FxMul(a.y, b.y) - FxMul(a.z, b.z))

from_rotation_x(angle) == Quat(Sin(angle \div 2), 0, 0, Cos(angle \div 2))

from_rotation_y(angle) == Quat(0, Sin(angle \div 2), 0, Cos(angle \div 2))

from_rotation_z(angle) == Quat(0, 0, Sin(angle \div 2), Cos(angle \div 2))

\* Quat::from_euler(EulerRot::ZYX, a, b, c): rotate about z by a, then about
\* the new y by b, then about the new x by c.
from_euler_ZYX(a, b, c) ==
    QuatMul(QuatMul(from_rotation_z(a), from_rotation_y(b)), from_rotation_x(c))

\* Quat::to_euler(EulerRot::ZYX): the three angles (z, y, x) in radians.
to_euler_ZYX(q) ==
    LET xx == FxMul(q.x, q.x)
        yy == FxMul(q.y, q.y)
        zz == FxMul(q.z, q.z)
        ww == FxMul(q.w, q.w)
    IN  [z |-> Atan2(2 * (FxMul(q.x, q.y) + FxMul(q.w, q.z)), ww + xx - yy - zz),
         y |-> AsinClamped(-2 * (FxMul(q.x, q.z) - FxMul(q.w, q.y))),
         x |-> Atan2(2 * (FxMul(q.y, q.z) + FxMul(q.w, q.x)), ww - xx - yy + zz)]

Rotator(pitch, yaw, roll) == [pitch |-> pitch, yaw |-> yaw, roll |-> roll]

\* A plausible slip: the roll . pitch . yaw order of the other revision.
to_quaternion_roll_first(r) ==
    QuatMul(QuatMul(from_rotation_x(to_radians(r.roll)),
                    from_rotation_y(to_radians(r.pitch))),
            from_rotation_z(to_radians(r.yaw)))

to_quaternion(r) ==
    LET pitch_rad == to_radians(r.pitch)
        yaw_rad == to_radians(r.yaw)
        roll_rad == to_radians(r.roll)
    IN  from_euler_ZYX(yaw_rad, pitch_rad, roll_rad)

from_quaternion(quat) ==
    LET e == to_euler_ZYX(quat)
    IN  Rotator(to_degrees(e.y), to_degrees(e.z), to_degrees(e.x))

\* Quat::from_euler(EulerRot::YXZ, a, b, c): rotate about y by a, then about
\* the new x by b, then about the new z by c.
from_euler_YXZ(a, b, c) ==
    QuatMul(QuatMul(from_rotation_y(a), from_rotation_x(b)), from_rotation_z(c))

\* Rotator::to_quaternion of the revision in src/src/rotator.rs
to_quaternion_YXZ(r) ==
    LET pitch_rad == to_radians(r.pitch)
        yaw_rad == to_radians(r.yaw)
        roll_rad == to_radians(r.roll)
    IN  from_euler_YXZ(yaw_rad, pitch_rad, roll_rad)

\* A plausible slip: > and < written >= and <=.
normalize_angle_half_open(angle) ==
    LET result == FxRem(angle, Fx(360))
    IN  IF result >= Fx(180) THEN result - Fx(360)
        ELSE IF result <= Fx(-180) THEN result + Fx(360)
        ELSE result

normalize_angle(angle) ==
    LET result == FxRem(angle, Fx(360))
    IN  IF result > Fx(180) THEN result - Fx(360)
        ELSE IF result < Fx(-180) THEN result + Fx(360)
        ELSE result

-----------------------------------------------------------------------------
(***************************************************************************)
(* Matrix4 (glam Mat4) and Transform (src/src/types/transform.rs)          *)
(*                                                                         *)
(* Every matrix the code builds is affine: its fourth row is (0, 0, 0, 1). *)
(* A matrix is kept as its four columns without that row.                  *)
(***************************************************************************)

Mat(x_axis, y_axis, z_axis, w_axis) ==
    [x_axis |-> x_axis, y_axis |-> y_axis, z_axis |-> z_axis, w_axis |-> w_axis]

VecCross(a, b) ==
    Vec(FxMul(a.y, b.z) - FxMul(a.z, b.y),
        FxMul(a.z, b.x) - FxMul(a.x, b.z),
        FxMul(a.x, b.y) - FxMul(a.y, b.x))

VecNeg(a) == Vec(-a.x, -a.y, -a.z)

\* Mat4::from_scale_rotation_translation -> quat_to_axes
quat_to_axes(rotation) ==
    LET x == rotation.x
        y == rotation.y
        z == rotation.z
        w == rotation.w
        x2 == x + x
        y2 == y + y
        z2 == z + z
        xx == FxMul(x, x2)
        xy == FxMul(x, y2)
        xz == FxMul(x, z2)
        yy == FxMul(y, y2)
        yz == FxMul(y, z2)
        zz == FxMul(z, z2)
        wx == FxMul(w, x2)
        wy == FxMul(w, y2)
        wz == FxMul(w, z2)
    IN  [x_axis |-> Vec(ONE - (yy + zz), xy + wz, xz - wy),
         y_axis |-> Vec(xy - wz, ONE - (xx + zz), yz + wx),
         z_axis |-> Vec(xz + wy, yz - wx, ONE - (xx + yy))]

from_scale_rotation_translation(scale, rotation, translation) ==
    LET axes == quat_to_axes(rotation)
    IN  Mat(VecScale(axes.x_axis, scale.x),
            VecScale(axes.y_axis, scale.y),
            VecScale(axes.z_axis, scale.z),
            translation)

\* The linear part of m applied to v.
transform_vector3(m, v) ==
    VecAdd(VecAdd(VecScale(m.x_axis, v.x), VecScale(m.y_axis, v.y)),
           VecScale(m.z_axis, v.z))

\* Mat4::transform_point3
transform_point3(m, p) == VecAdd(transform_vector3(m, p), m.w_axis)

\* Mat4 * Mat4: the columns of b mapped by a.
MatMul(a, b) ==
    Mat(transform_vector3(a, b.x_axis),
        transform_vector3(a, b.y_axis),
        transform_vector3(a, b.z_axis),
        transform_point3(a, b.w_axis))

\* Mat4::determinant
determinant(m) == VecDot(m.x_axis, VecCross(m.y_axis, m.z_axis))

\* Mat4::inverse: the adjugate times 1 / determinant (determinant # 0).
MatInverse(m) ==
    LET rcp_det == FxDiv(ONE, determinant(m))
        r0 == VecScale(VecCross(m.y_axis, m.z_axis), rcp_det)
        r1 == VecScale(VecCross(m.z_axis, m.x_axis), rcp_det)
        r2 == VecScale(VecCross(m.x_axis, m.y_axis), rcp_det)
        lin == [x_axis |-> Vec(r0.x, r1.x, r2.x),
                y_axis |-> Vec(r0.y, r1.y, r2.y),
                z_axis |-> Vec(r0.z, r1.z, r2.z)]
    IN  Mat(lin.x_axis, lin.y_axis, lin.z_axis,
            VecNeg(transform_vector3(lin, m.w_axis)))

\* Quat::from_rotation_axes (glam's branch on the largest component)
from_rotation_axes(x_axis, y_axis, z_axis) ==
    LET m00 == x_axis.x
        m01 == x_axis.y
        m02 == x_axis.z
        m10 == y_axis.x
        m11 == y_axis.y
        m12 == y_axis.z
        m20 == z_axis.x
        m21 == z_axis.y
        m22 == z_axis.z
        half == ONE \div 2
    IN  IF m22 <= 0
        THEN LET dif10 == m11 - m00
                 omm22 == ONE - m22
             IN  IF dif10 <= 0
                 THEN LET four_xsq == omm22 - dif10
                          inv4x == FxDiv(half, FxSqrt(four_xsq))
                      IN  Quat(FxMul(four_xsq, inv4x), FxMul(m01 + m10, inv4x),
                               FxMul(m02 + m20, inv4x), FxMul(m12 - m21, inv4x))
                 ELSE LET four_ysq == omm22 + dif10
                          inv4y == FxDiv(half, FxSqrt(four_ysq))
                      IN  Quat(FxMul(m01 + m10, inv4y), FxMul(four_ysq, inv4y),
                               FxMul(m12 + m21, inv4y), FxMul(m20 - m02, inv4y))
        ELSE LET sum10 == m11 + m00
                 opm22 == ONE + m22
             IN  IF sum10 <= 0
                 THEN LET four_zsq == opm22 - sum10
                          inv4z == FxDiv(half, FxSqrt(four_zsq))
                      IN  Quat(FxMul(m02 + m20, inv4z), FxMul(m12 + m21, inv4z),
                               FxMul(four_zsq, inv4z), FxMul(m01 - m10, inv4z))
                 ELSE LET four_wsq == opm22 + sum10
                          inv4w == FxDiv(half, FxSqrt(four_wsq))
                      IN  Quat(FxMul(m12 - m21, inv4w), FxMul(m20 - m02, inv4w),
                               FxMul(m01 - m10, inv4w), FxMul(four_wsq, inv4w))

\* Mat4::to_scale_rotation_translation (no column of m is zero)
to_scale_rotation_translation(m) ==
    LET det == determinant(m)
        signum == IF det < 0 THEN -1 ELSE 1
        scale == Vec(signum * VecLength(m.x_axis), VecLength(m.y_axis),
                     VecLength(m.z_axis))
        inv_scale == Vec(FxDiv(ONE, scale.x), FxDiv(ONE, scale.y),
                         FxDiv(ONE, scale.z))
        rotation == from_rotation_axes(VecScale(m.x_axis, inv_scale.x),
                                       VecScale(m.y_axis, inv_scale.y),
                                       VecScale(m.z_axis, inv_scale.z))
    IN  [scale |-> scale, rotation |-> rotation, translation |-> m.w_axis]

Transform(location, rotation, scale) ==
    [location |-> location, rotation |-> rotation, scale |-> scale]

IDENTITY == Transform(VecZERO, QuatIDENTITY, VecONE)

from_location_rotator_scale(location, rotator, scale) ==
    Transform(location, to_quaternion(rotator), scale)

to_matrix(t) == from_scale_rotation_translation(t.scale, t.rotation, t.location)

from_matrix(matrix) ==
    LET srt == to_scale_rotation_translation(matrix)
    IN  Transform(srt.translation, srt.rotation, srt.scale)

transform_point(t, point) == transform_point3(to_matrix(t), point)

inverse(t) == from_matrix(MatInverse(to_matrix(t)))

combine(t, other) == from_matrix(MatMul(to_matrix(t), to_matrix(other)))

\* Quat::abs_diff_eq
abs_diff_eq(q, other, tolerance) ==
    /\ Abs(q.x - other.x) <= tolerance
    /\ Abs(q.y - other.y) <= tolerance
    /\ Abs(q.z - other.z) <= tolerance
    /\ Abs(q.w - other.w) <= tolerance

is_nearly_equal(t, other, tolerance) ==
    /\ VecLength(VecSub(t.location, other.location)) <= tolerance
    /\ abs_diff_eq(t.rotation, other.rotation, tolerance)
    /\ VecLength(VecSub(t.scale, other.scale)) <= tolerance

is_nearly_identity(t, tolerance) == is_nearly_equal(t, IDENTITY, tolerance)

-----------------------------------------------------------------------------
(***************************************************************************)
(* BoundingBox (src/src/types/bounds/bounding_box.rs)                      *)
(***************************************************************************)

\* f64::INFINITY: above every finite coordinate of the model.  Only
\* comparisons, min and max are applied to it.
INFINITY == 2^30

NEG_INFINITY == -INFINITY

Box(mn, mx) == [min |-> mn, max |-> mx]

EMPTY == Box(Vec(INFINITY, INFINITY, INFINITY),
             Vec(NEG_INFINITY, NEG_INFINITY, NEG_INFINITY))

from_point(point) == Box(point, point)

is_valid(b) == b.min.x <= b.max.x /\ b.min.y <= b.max.y /\ b.min.z <= b.max.z

is_empty(b) == b.min.x >= b.max.x \/ b.min.y >= b.max.y \/ b.min.z >= b.max.z

contains_point(b, point) ==
    /\ point.x >= b.min.x /\ point.x <= b.max.x
    /\ point.y >= b.min.y /\ point.y <= b.max.y
    /\ point.z >= b.min.z /\ point.z <= b.max.z

\* A plausible slip: the x test loses its boundary on one side.
intersects_strict_x(a, other) ==
    /\ a.min.x < other.max.x /\ a.max.x >= other.min.x
    /\ a.min.y <= other.max.y /\ a.max.y >= other.min.y
    /\ a.min.z <= other.max.z /\ a.max.z >= other.min.z

intersects(a, other) ==
    /\ a.min.x <= other.max.x /\ a.max.x >= other.min.x
    /\ a.min.y <= other.max.y /\ a.max.y >= other.min.y
    /\ a.min.z <= other.max.z /\ a.max.z >= other.min.z

\* A plausible slip: the max corner is folded with min.
expand_to_include_min_only(b, point) ==
    Box(VecMin(b.min, point), VecMin(b.max, point))

expand_to_include(b, point) ==
    Box(VecMin(b.min, point), VecMax(b.max, point))

expand_to_include_box(a, other) ==
    IF is_empty(other) THEN a
    ELSE IF is_empty(a) THEN other
    ELSE Box(VecMin(a.min, other.min), VecMax(a.max, other.max))

\* A plausible slip: min and max exchanged, which gives the union's bounds.
intersection_as_union(a, other) ==
    IF ~intersects(a, other) THEN EMPTY
    ELSE Box(VecMin(a.min, other.min), VecMax(a.max, other.max))

intersection(a, other) ==
    IF ~intersects(a, other) THEN EMPTY
    ELSE Box(VecMax(a.min, other.min), VecMin(a.max, other.max))

\* The fold of from_points over points[from..], starting from bbox.
RECURSIVE FoldExpand(_, _, _)
FoldExpand(bbox, points, from) ==
    IF from > Len(points) THEN bbox
    ELSE FoldExpand(expand_to_include(bbox, points[from]), points, from + 1)

from_points(points) ==
    IF points = <<>> THEN EMPTY
    ELSE FoldExpand(from_point(points[1]), points, 2)

\* The 8 corners of b, in the order the code lists them.
corners(b) ==
    <<Vec(b.min.x, b.min.y, b.min.z), Vec(b.max.x, b.min.y, b.min.z),
      Vec(b.min.x, b.max.y, b.min.z), Vec(b.max.x, b.max.y, b.min.z),
      Vec(b.min.x, b.min.y, b.max.z), Vec(b.max.x, b.min.y, b.max.z),
      Vec(b.min.x, b.max.y, b.max.z), Vec(b.max.x, b.max.y, b.max.z)>>

transformed_corners(b, t) ==
    [i \in 1..8 |-> transform_point(t, corners(b)[i])]

transform(b, t) ==
    IF is_empty(b) THEN EMPTY
    ELSE from_points(transformed_corners(b, t))

-----------------------------------------------------------------------------
(***************************************************************************)
(* Basis vectors of a Rotator (src/src/types/rotator.rs)                   *)
(***************************************************************************)

\* A plausible slip: the vector turned by the inverse rotation.
QuatMulVecInverse(q, v) ==
    LET b  == Vec(-q.x, -q.y, -q.z)
        b2 == VecDot(b, b)
    IN  VecAdd(VecAdd(VecScale(v, FxMul(q.w, q.w) - b2),
                      VecScale(b, 2 * VecDot(v, b))),
               VecScale(VecCross(b, v), 2 * q.w))

\* glam Quat * Vec3
QuatMulVec(q, v) ==
    LET b  == Vec(q.x, q.y, q.z)
        b2 == VecDot(b, b)
    IN  VecAdd(VecAdd(VecScale(v, FxMul(q.w, q.w) - b2),
                      VecScale(b, 2 * VecDot(v, b))),
               VecScale(VecCross(b, v), 2 * q.w))

FORWARD == Vec(ONE, 0, 0)

RIGHT == Vec(0, ONE, 0)

UP == Vec(0, 0, ONE)

get_forward_vector(r) == QuatMulVec(to_quaternion(r), FORWARD)

get_right_vector(r) == QuatMulVec(to_quaternion(r), RIGHT)

get_up_vector(r) == QuatMulVec(to_quaternion(r), UP)

\* A plausible slip: the scale left out.
transform_vector_unscaled(t, vector) == QuatMulVec(t.rotation, vector)

transform_vector(t, vector) ==
    QuatMulVec(t.rotation, VecMulVec(vector, t.scale))

transform_direction(t, direction) == QuatMulVec(t.rotation, direction)

-----------------------------------------------------------------------------
(***************************************************************************)
(* Ray queries (src/src/types/math/ray.rs), in Fx.  A ray is a record      *)
(* [origin, direction].                                                    *)
(***************************************************************************)

FxRay(origin, direction) == [origin |-> origin, direction |-> direction]

point_at_distance(ray, distance) ==
    VecAdd(ray.origin, VecScale(ray.direction, distance))

\* closest_point_to without the max(0.0): the closest point of the whole line
Ray_closest_point_on_line(ray, point) ==
    point_at_distance(ray, VecDot(VecSub(point, ray.origin), ray.direction))

Ray_closest_point_to(ray, point) ==
    LET to_point == VecSub(point, ray.origin)
        distance == Max2(VecDot(to_point, ray.direction), 0)
    IN  point_at_distance(ray, distance)

Ray_distance_to_point(ray, point) ==
    LET closest == Ray_closest_point_to(ray, point)
    IN  VecLength(VecSub(point, closest))

-----------------------------------------------------------------------------
(***************************************************************************)
(* BoundingSphere against a box                                            *)
(* (src/src/types/bounds/bounding_sphere.rs), in Fx                        *)
(***************************************************************************)

FxSphere(center, radius) == [center |-> center, radius |-> radius]

\* A plausible slip: the point itself, not clamped to the box.
BoundingBox_closest_point_unclamped(b, point) == point

\* point.clamp(min, max)
BoundingBox_closest_point_to(b, point) == VecMin(VecMax(point, b.min), b.max)

BoundingSphere_contains_point(sphere, point) ==
    VecLengthSquared(VecSub(point, sphere.center))
        <= FxMul(sphere.radius, sphere.radius)

intersects_box(sphere, bbox) ==
    LET closest_point == BoundingBox_closest_point_to(bbox, sphere.center)
    IN  BoundingSphere_contains_point(sphere, closest_point)

-----------------------------------------------------------------------------
(***************************************************************************)
(* Fl: binary floating point, rounded to nearest-even                      *)
(*                                                                         *)
(* A finite value is s * m * 2^e with sign s, mantissa 0 <= m < 2^MantBits *)
(* and MinExp <= e <= MaxExp; it is normal when m >= 2^(MantBits-1) and    *)
(* subnormal when e = MinExp and m is smaller.  Zero is kept with sign +1: *)
(* the code never divides by a zero, so the sign of zero is not observed.  *)
(***************************************************************************)

MantBits == 10

\* Finite values lie strictly between -2^ExpRange and 2^ExpRange; the
\* smallest positive (subnormal) value is 2^(-2 * ExpRange).
ExpRange == 12

MinExp == -(2 * ExpRange)

MaxExp == ExpRange - MantBits

FlFin(s, m, e) == [k |-> "fin", s |-> s, m |-> m, e |-> e]

FlZero == FlFin(1, 0, MinExp)

FlInf(s) == [k |-> "inf", s |-> s, m |-> 0, e |-> 0]

FlNaN == [k |-> "nan", s |-> 1, m |-> 0, e |-> 0]

RECURSIVE BitLen(_)
BitLen(n) == IF n = 0 THEN 0 ELSE 1 + BitLen(n \div 2)

\* q * 2^t with q <= 2^MantBits already on the grid of exponent t
Pack(s, q, t) ==
    LET q1 == IF q = 2^MantBits THEN 2^(MantBits - 1) ELSE q
        t1 == IF q = 2^MantBits THEN t + 1 ELSE t
    IN  IF q1 = 0 THEN FlZero
        ELSE IF t1 > MaxExp THEN FlInf(s)
        ELSE FlFin(s, q1, t1)

\* The float nearest to s * M * 2^E (ties to even), M >= 0
RoundPack(s, M, E) ==
    IF M = 0 THEN FlZero
    ELSE LET L == BitLen(M)
             t == Max2(E + L - MantBits, MinExp)
         IN  IF t <= E THEN
                 IF t > MaxExp THEN FlInf(s) ELSE Pack(s, M * 2^(E - t), t)
             ELSE IF t - E > L + 1 THEN FlZero
             ELSE LET sh   == t - E
                      q    == M \div 2^sh
                      r    == M % 2^sh
                      half == 2^(sh - 1)
                      up   == r > half \/ (r = half /\ q % 2 = 1)
                  IN  Pack(s, IF up THEN q + 1 ELSE q, t)

is_nan(a) == a.k = "nan"

is_infinite(a) == a.k = "inf"

is_finite(a) == a.k = "fin"

FlIsZero(a) == a.k = "fin" /\ a.m = 0

\* a * b
FlMul(a, b) ==
    IF is_nan(a) \/ is_nan(b) THEN FlNaN
    ELSE IF is_infinite(a) \/ is_infinite(b) THEN
        IF FlIsZero(a) \/ FlIsZero(b) THEN FlNaN ELSE FlInf(a.s * b.s)
    ELSE RoundPack(a.s * b.s, a.m * b.m, a.e + b.e)

\* a + b for finite a, b with a.e >= b.e
AddAligned(a, b) ==
    IF a.m # 0 /\ a.e - b.e > MantBits + 2 THEN
        \* b is below an eighth of the last place of a: it only makes the
        \* sum inexact
        LET M == 8 * a.m * a.s + (IF b.m = 0 THEN 0 ELSE b.s)
        IN  RoundPack(Sgn(M), Abs(M), a.e - 3)
    ELSE IF a.m = 0 THEN b
    ELSE LET M == a.s * a.m * 2^(a.e - b.e) + b.s * b.m
         IN  RoundPack(IF M < 0 THEN -1 ELSE 1, Abs(M), b.e)

\* a + b
FlAdd(a, b) ==
    IF is_nan(a) \/ is_nan(b) THEN FlNaN
    ELSE IF is_infinite(a) /\ is_infinite(b) THEN
        IF a.s = b.s THEN a ELSE FlNaN
    ELSE IF is_infinite(a) THEN a
    ELSE IF is_infinite(b) THEN b
    ELSE IF a.e >= b.e THEN AddAligned(a, b)
    ELSE AddAligned(b, a)

\* mantissa and exponent of a finite non-zero a with the mantissa brought to
\* exactly MantBits bits
NormM(a) == a.m * 2^(MantBits - BitLen(a.m))

NormE(a) == a.e - (MantBits - BitLen(a.m))

\* a / b
FlDiv(a, b) ==
    IF is_nan(a) \/ is_nan(b) THEN FlNaN
    ELSE IF is_infinite(a) THEN
        IF is_infinite(b) THEN FlNaN ELSE FlInf(a.s * b.s)
    ELSE IF is_infinite(b) THEN FlZero
    ELSE IF FlIsZero(b) THEN
        IF FlIsZero(a) THEN FlNaN ELSE FlInf(a.s * b.s)
    ELSE IF FlIsZero(a) THEN FlZero
    ELSE LET N == NormM(a) * 2^(MantBits + 2)
             q == N \div NormM(b)
             r == N % NormM(b)
         IN  RoundPack(a.s * b.s, 2 * q + (IF r = 0 THEN 0 ELSE 1),
                       NormE(a) - NormE(b) - (MantBits + 2) - 1)

RECURSIVE ISqrtSearch(_, _, _)
ISqrtSearch(lo, hi, n) ==
    IF hi - lo <= 1 THEN lo
    ELSE LET mid == lo + ((hi - lo) \div 2)
         IN  IF mid * mid <= n THEN ISqrtSearch(mid, hi, n)
             ELSE ISqrtSearch(lo, mid, n)

\* floor of the square root of the natural number n < 2^30
ISqrt(n) == ISqrtSearch(0, 2^15, n)

\* sqrt(a)
FlSqrt(a) ==
    IF is_nan(a) THEN FlNaN
    ELSE IF FlIsZero(a) THEN FlZero
    ELSE IF a.s < 0 THEN FlNaN
    ELSE IF is_infinite(a) THEN a
    ELSE LET odd == NormE(a) % 2 = 1
             m   == IF odd THEN 2 * NormM(a) ELSE NormM(a)
             e   == IF odd THEN NormE(a) - 1 ELSE NormE(a)
             k   == (MantBits \div 2) + 2
             N   == m * 2^(2 * k)
             r   == ISqrt(N)
         IN  RoundPack(1, 2 * r + (IF r * r = N THEN 0 ELSE 1),
                       ((e - 2 * k) \div 2) - 1)

\* a == b (false when either is NaN)
FlEq(a, b) == ~is_nan(a) /\ ~is_nan(b) /\ a = b

\* a < b (false when either is NaN)
FlLt(a, b) ==
    /\ ~is_nan(a)
    /\ ~is_nan(b)
    /\ LET d == FlAdd(b, [a EXCEPT !.s = -a.s])
       IN  IF is_nan(d) THEN FALSE     \* a = b = the same infinity
           ELSE d.s = 1 /\ ~FlIsZero(d)

FlOne == FlFin(1, 2^(MantBits - 1), -(MantBits - 1))

-----------------------------------------------------------------------------
(***************************************************************************)
(* VectorExt on glam DVec3 (src/src/types/vector.rs), in Fl                *)
(***************************************************************************)

DVec3(x, y, z) == [x |-> x, y |-> y, z |-> z]

DVec3ZERO == DVec3(FlZero, FlZero, FlZero)

\* x*x + y*y + z*z, summed left to right
length_squared(v) ==
    FlAdd(FlAdd(FlMul(v.x, v.x), FlMul(v.y, v.y)), FlMul(v.z, v.z))

length(v) == FlSqrt(length_squared(v))

\* v / d, component by component
DVec3Div(v, d) == DVec3(FlDiv(v.x, d), FlDiv(v.y, d), FlDiv(v.z, d))

get_safe_normal(v, tolerance) ==
    LET square_sum == length_squared(v)
        len  == FlSqrt(square_sum)
        norm == DVec3Div(v, len)
    IN  IF FlEq(square_sum, FlOne) THEN v
        ELSE IF FlLt(square_sum, FlMul(tolerance, tolerance)) THEN DVec3ZERO
        ELSE IF ~is_finite(square_sum) \/ is_nan(square_sum) THEN DVec3ZERO
        ELSE IF ~is_finite(len) \/ is_nan(len) \/ FlEq(len, FlZero)
            THEN DVec3ZERO
        ELSE IF is_infinite(length(norm)) \/ is_nan(length(norm))
            THEN DVec3ZERO
        ELSE norm

-----------------------------------------------------------------------------
(***************************************************************************)
(* Ray construction (src/src/types/math/ray.rs), in Fl                     *)
(***************************************************************************)

FlNeg(a) == IF is_finite(a) /\ a.m = 0 THEN a ELSE [a EXCEPT !.s = -a.s]

DVec3Sub(a, b) ==
    DVec3(FlAdd(a.x, FlNeg(b.x)), FlAdd(a.y, FlNeg(b.y)),
          FlAdd(a.z, FlNeg(b.z)))

DVec3Scale(v, k) == DVec3(FlMul(v.x, k), FlMul(v.y, k), FlMul(v.z, k))

\* 1.0 / length
length_recip(v) == FlDiv(FlOne, length(v))

\* glam normalize: self * self.length_recip(), no check of the length
normalize(v) == DVec3Scale(v, length_recip(v))

Ray(origin, direction) == [origin |-> origin, direction |-> direction]

RayNew(origin, direction) == Ray(origin, normalize(direction))

from_origin_to_target(origin, target) ==
    RayNew(origin, DVec3Sub(target, origin))

-----------------------------------------------------------------------------
(***************************************************************************)
(* LineSegment (src/src/types/math/line_segment.rs and the older revision  *)
(* in src/src/types/math.rs), in Fl                                        *)
(***************************************************************************)

\* f32::EPSILON: the gap between 1.0 and the next float
EPSILON == FlFin(1, 2^(MantBits - 1), 2 * (1 - MantBits))

DVec3Add(a, b) == DVec3(FlAdd(a.x, b.x), FlAdd(a.y, b.y), FlAdd(a.z, b.z))

DVec3Dot(a, b) ==
    FlAdd(FlAdd(FlMul(a.x, b.x), FlMul(a.y, b.y)), FlMul(a.z, b.z))

\* f32::clamp: NaN stays NaN
FlClamp(t, lo, hi) ==
    IF FlLt(t, lo) THEN lo ELSE IF FlLt(hi, t) THEN hi ELSE t

\* glam Vec3::lerp: self + (rhs - self) * s
DVec3Lerp(a, b, t) == DVec3Add(a, DVec3Scale(DVec3Sub(b, a), t))

LineSegment(start, end) == [start |-> start, end |-> end]

LineSegment_lerp(seg, t) ==
    DVec3Lerp(seg.start, seg.end, FlClamp(t, FlZero, FlOne))

\* src/src/types/math.rs: no test of the length
LineSegment_closest_point_to_unguarded(seg, point) ==
    LET segment_vec == DVec3Sub(seg.end, seg.start)
        to_point    == DVec3Sub(point, seg.start)
        t == FlDiv(DVec3Dot(to_point, segment_vec),
                   DVec3Dot(segment_vec, segment_vec))
    IN  LineSegment_lerp(seg, t)

\* src/src/types/math/line_segment.rs
LineSegment_closest_point_to(seg, point) ==
    LET segment_vec == DVec3Sub(seg.end, seg.start)
        segment_length_squared == length_squared(segment_vec)
        to_point    == DVec3Sub(point, seg.start)
        t == FlDiv(DVec3Dot(to_point, segment_vec), segment_length_squared)
    IN  IF FlLt(segment_length_squared, EPSILON) THEN seg.start
        ELSE LineSegment_lerp(seg, t)

-----------------------------------------------------------------------------
(***************************************************************************)
(* BoundingSphere built from points                                        *)
(* (src/src/types/bounds/bounding_sphere.rs), in Fl: whether the sphere    *)
(* contains its points is a matter of the rounding of sqrt and *.          *)
(***************************************************************************)

FlMin2(a, b) == IF FlLt(b, a) THEN b ELSE a

FlMax2(a, b) == IF FlLt(a, b) THEN b ELSE a

DVec3Min(a, b) == DVec3(FlMin2(a.x, b.x), FlMin2(a.y, b.y), FlMin2(a.z, b.z))

DVec3Max(a, b) == DVec3(FlMax2(a.x, b.x), FlMax2(a.y, b.y), FlMax2(a.z, b.z))

\* BoundingBox::from_points on a non-empty list: the box of the first
\* point, expanded by each of the others
RECURSIVE FlFoldExpand(_, _, _)
FlFoldExpand(b, points, i) ==
    IF i > Len(points) THEN b
    ELSE FlFoldExpand([min |-> DVec3Min(b.min, points[i]),
                       max |-> DVec3Max(b.max, points[i])], points, i + 1)

FlBoxFromPoints(points) ==
    FlFoldExpand([min |-> points[1], max |-> points[1]], points, 2)

\* 0.5
FlHalf == FlFin(1, 2^(MantBits - 1), -MantBits)

\* BoundingBox::center: (min + max) * 0.5
FlBoxCenter(b) == DVec3Scale(DVec3Add(b.min, b.max), FlHalf)

BoundingSphere(center, radius) == [center |-> center, radius |-> radius]

\* the fold of f32::max over the distances from center, from 0.0
RECURSIVE MaxDistance(_, _, _, _)
MaxDistance(center, points, i, acc) ==
    IF i > Len(points) THEN acc
    ELSE MaxDistance(center, points, i + 1,
                     FlMax2(acc, length(DVec3Sub(points[i], center))))

Sphere_from_points(points) ==
    IF points = <<>> THEN BoundingSphere(DVec3ZERO, FlZero)
    ELSE LET bbox   == FlBoxFromPoints(points)
             center == FlBoxCenter(bbox)
         IN  BoundingSphere(center, MaxDistance(center, points, 1, FlZero))

\* length_squared(point - center) <= radius * radius
Sphere_contains_point(sphere, point) ==
    LET d2 == length_squared(DVec3Sub(point, sphere.center))
        r2 == FlMul(sphere.radius, sphere.radius)
    IN  FlLt(d2, r2) \/ FlEq(d2, r2)

-----------------------------------------------------------------------------
(***************************************************************************)
(* BoundingSphere::transform (src/src/types/bounds/bounding_sphere.rs),    *)
(* in Fl: a point on the surface of the sphere stays inside or not by the  *)
(* rounding of the matrix product.                                         *)
(***************************************************************************)

FlQuat(x, y, z, w) == [x |-> x, y |-> y, z |-> z, w |-> w]

FlTransform(location, rotation, scale) ==
    [location |-> location, rotation |-> rotation, scale |-> scale]

FlSub(a, b) == FlAdd(a, FlNeg(b))

FlAbs(a) == IF is_nan(a) THEN a ELSE [a EXCEPT !.s = 1]

\* Mat4::from_scale_rotation_translation: the three axes of the rotation,
\* each multiplied by its scale, and the translation
Fl_to_matrix(t) ==
    LET x == t.rotation.x
        y == t.rotation.y
        z == t.rotation.z
        w == t.rotation.w
        x2 == FlAdd(x, x)
        y2 == FlAdd(y, y)
        z2 == FlAdd(z, z)
        xx == FlMul(x, x2)
        xy == FlMul(x, y2)
        xz == FlMul(x, z2)
        yy == FlMul(y, y2)
        yz == FlMul(y, z2)
        zz == FlMul(z, z2)
        wx == FlMul(w, x2)
        wy == FlMul(w, y2)
        wz == FlMul(w, z2)
    IN  [x_axis |-> DVec3Scale(DVec3(FlSub(FlOne, FlAdd(yy, zz)),
                                     FlAdd(xy, wz), FlSub(xz, wy)),
                               t.scale.x),
         y_axis |-> DVec3Scale(DVec3(FlSub(xy, wz),
                                     FlSub(FlOne, FlAdd(xx, zz)),
                                     FlAdd(yz, wx)),
                               t.scale.y),
         z_axis |-> DVec3Scale(DVec3(FlAdd(xz, wy), FlSub(yz, wx),
                                     FlSub(FlOne, FlAdd(xx, yy))),
                               t.scale.z),
         w_axis |-> t.location]

\* Mat4::transform_point3
Fl_transform_point3(m, p) ==
    LET r1 == DVec3Scale(m.x_axis, p.x)
        r2 == DVec3Add(DVec3Scale(m.y_axis, p.y), r1)
        r3 == DVec3Add(DVec3Scale(m.z_axis, p.z), r2)
    IN  DVec3Add(m.w_axis, r3)

Fl_transform_point(t, point) == Fl_transform_point3(Fl_to_matrix(t), point)

Sphere_transform(sphere, t) ==
    LET new_center == Fl_transform_point(t, sphere.center)
        scale_x == FlAbs(t.scale.x)
        scale_y == FlAbs(t.scale.y)
        scale_z == FlAbs(t.scale.z)
        max_scale == FlMax2(FlMax2(scale_x, scale_y), scale_z)
    IN  BoundingSphere(new_center, FlMul(sphere.radius, max_scale))

-----------------------------------------------------------------------------
(***************************************************************************)
(* BoundingBox::closest_point_to and distance_to_point                     *)
(* (src/src/types/bounds/bounding_box.rs), in Fl: the square of a small    *)
(* difference can underflow.                                               *)
(***************************************************************************)

\* a <= b (false when either is NaN)
FlLe(a, b) == FlLt(a, b) \/ FlEq(a, b)

FlBox(mn, mx) == [min |-> mn, max |-> mx]

Fl_contains_point(b, point) ==
    /\ FlLe(b.min.x, point.x) /\ FlLe(point.x, b.max.x)
    /\ FlLe(b.min.y, point.y) /\ FlLe(point.y, b.max.y)
    /\ FlLe(b.min.z, point.z) /\ FlLe(point.z, b.max.z)

\* point.clamp(min, max) = point.max(min).min(max)
Fl_closest_point_to(b, point) == DVec3Min(DVec3Max(point, b.min), b.max)

Fl_distance_to_point(b, point) ==
    LET closest == DVec3Min(DVec3Max(point, b.min), b.max)
    IN  length(DVec3Sub(point, closest))

-----------------------------------------------------------------------------
(***************************************************************************)
(* Plane (src/src/types/math/plane.rs), in Fx                              *)
(***************************************************************************)

\* glam normalize: self * (1.0 / self.length()), for a vector of nonzero
\* length
VecNormalize(v) == VecScale(v, FxDiv(ONE, VecLength(v)))

Plane(normal, distance) == [normal |-> normal, distance |-> distance]

Plane_from_point_normal(point, normal) ==
    LET normalized == VecNormalize(normal)
        distance == VecDot(point, normalized)
    IN  Plane(normalized, distance)

Plane_from_three_points(p1, p2, p3) ==
    LET v1 == VecSub(p2, p1)
        v2 == VecSub(p3, p1)
        normal == VecNormalize(VecCross(v1, v2))
    IN  Plane_from_point_normal(p1, normal)

Plane_distance_to_point(plane, point) ==
    VecDot(plane.normal, point) - plane.distance

\* A plausible slip: the signed distance added along the normal, which
\* mirrors the point away from the plane.
Plane_project_point_added(plane, point) ==
    VecAdd(point, VecScale(plane.normal, Plane_distance_to_point(plane, point)))

Plane_project_point(plane, point) ==
    VecSub(point, VecScale(plane.normal, Plane_distance_to_point(plane, point)))

-----------------------------------------------------------------------------
(***************************************************************************)
(* angle_difference and lerp_rotator (src/src/types/rotator.rs)            *)
(***************************************************************************)

\* A plausible slip: the difference is not brought back to [-180, 180].
angle_difference_unwrapped(angle1, angle2) == angle2 - angle1

angle_difference(angle1, angle2) == normalize_angle(angle2 - angle1)

lerp_rotator(a, b, alpha) ==
    Rotator(a.pitch + FxMul(alpha, angle_difference(a.pitch, b.pitch)),
            a.yaw + FxMul(alpha, angle_difference(a.yaw, b.yaw)),
            a.roll + FxMul(alpha, angle_difference(a.roll, b.roll)))

-----------------------------------------------------------------------------
(***************************************************************************)
(* LineSegment::closest_points_to_segment                                  *)
(* (src/src/types/math/line_segment.rs), in Fx                             *)
(***************************************************************************)

FxLineSegment(start, end) == [start |-> start, end |-> end]

\* f32::EPSILON (2^-23), or the smallest positive value when that is larger
FxEPSILON == Max2(1, ONE \div 2^23)

FxSegment_center(seg) == VecScale(VecAdd(seg.start, seg.end), ONE \div 2)

\* start.lerp(end, t.clamp(0.0, 1.0))
FxSegment_lerp(seg, t) ==
    LET s == Min2(Max2(t, 0), ONE)
    IN  VecAdd(seg.start, VecScale(VecSub(seg.end, seg.start), s))

FxSegment_closest_point_to(seg, point) ==
    LET segment_vec == VecSub(seg.end, seg.start)
        segment_length_squared == VecLengthSquared(segment_vec)
        to_point == VecSub(point, seg.start)
    IN  IF segment_length_squared < FxEPSILON THEN seg.start
        ELSE FxSegment_lerp(seg, FxDiv(VecDot(to_point, segment_vec),
                                       segment_length_squared))

closest_points_to_segment(seg, other) ==
    LET point_on_self == FxSegment_closest_point_to(seg, FxSegment_center(other))
        point_on_other == FxSegment_closest_point_to(other, point_on_self)
    IN  <<point_on_self, point_on_other>>

-----------------------------------------------------------------------------
(***************************************************************************)
(* RepMovement (src/src/types/networking/rep_movement.rs).  An Option is   *)
(* the empty tuple (None) or a tuple of one element (Some).                *)
(***************************************************************************)

None == <<>>

Some(x) == <<x>>

RepMovement(location, rotation, velocity) ==
    [location |-> location, rotation |-> rotation,
     linear_velocity |-> velocity, angular_velocity |-> VecZERO,
     location_base |-> None, relative_location |-> VecZERO,
     server_frame |-> 0, is_simulated |-> FALSE, has_location_base |-> FALSE]

RepMovement_new == RepMovement(VecZERO, Rotator(0, 0, 0), VecZERO)

from_transform(location, rotation, velocity) ==
    RepMovement(location, rotation, velocity)

set_location_base(m, base_guid, relative_location) ==
    [m EXCEPT !.location_base = Some(base_guid),
              !.relative_location = relative_location,
              !.has_location_base = TRUE]

\* A plausible slip: the flag is left as it was.
clear_location_base_keeps_flag(m) ==
    [m EXCEPT !.location_base = None, !.relative_location = VecZERO]

clear_location_base(m) ==
    [m EXCEPT !.location_base = None, !.relative_location = VecZERO,
              !.has_location_base = FALSE]

\* base_transform_fn is None or Some(f), and f(guid) is None or Some(vector)
get_world_location(m, base_transform_fn) ==
    IF /\ m.has_location_base
       /\ m.location_base # None
       /\ base_transform_fn # None
       /\ base_transform_fn[1][m.location_base[1]] # None
    THEN VecAdd(base_transform_fn[1][m.location_base[1]][1],
                m.relative_location)
    ELSE m.location

set_server_frame(m, frame) == [m EXCEPT !.server_frame = frame]

set_simulated(m, simulated) == [m EXCEPT !.is_simulated = simulated]

-----------------------------------------------------------------------------
(***************************************************************************)
(* GameSessionInfo (src/src/types/networking/game_session_info.rs): the    *)
(* two player counts.  A call that returns a value gives the pair of the   *)
(* object after the call and the value.                                    *)
(***************************************************************************)

GameSessionInfo_new(max_players) ==
    [max_players |-> max_players, current_players |-> 0]

has_available_slots(s) == s.current_players < s.max_players

is_full(s) == s.current_players >= s.max_players

add_player(s) ==
    IF has_available_slots(s)
    THEN [self |-> [s EXCEPT !.current_players = s.current_players + 1],
          ret |-> TRUE]
    ELSE [self |-> s, ret |-> FALSE]

remove_player(s) ==
    IF s.current_players > 0
    THEN [self |-> [s EXCEPT !.current_players = s.current_players - 1],
          ret |-> TRUE]
    ELSE [self |-> s, ret |-> FALSE]

-----------------------------------------------------------------------------
(***************************************************************************)
(* Version::parse and Version::to_string (src/src/types/version.rs).  A    *)
(* string is a sequence of characters; a Result is a record tagged "Ok"    *)
(* or "Err".                                                               *)
(***************************************************************************)

Ok(v) == [tag |-> "Ok", value |-> v]

Err(e) == [tag |-> "Err", err |-> e]

Version(major, minor, patch, build) ==
    [major |-> major, minor |-> minor, patch |-> patch, build |-> build]

Digits == <<"0", "1", "2", "3", "4", "5", "6", "7", "8", "9">>

IsDigit(c) == \E d \in 1..10 : Digits[d] = c

DigitValue(c) == (CHOOSE d \in 1..10 : Digits[d] = c) - 1

\* u16::MAX
U16_MAX == 65535

\* format!("{}", n) for an unsigned n: the decimal digits, no sign, no
\* leading zero
RECURSIVE FormatU16(_)
FormatU16(n) ==
    IF n < 10 THEN <<Digits[n + 1]>>
    ELSE FormatU16(n \div 10) \o <<Digits[(n % 10) + 1]>>

\* The digits of s from i on, added to acc: an error at a character that is
\* not a digit, and when the value leaves the range of u16
RECURSIVE ParseDigits(_, _, _)
ParseDigits(s, i, acc) ==
    IF i > Len(s) THEN Ok(acc)
    ELSE IF ~IsDigit(s[i]) THEN Err("InvalidDigit")
    ELSE IF acc * 10 + DigitValue(s[i]) > U16_MAX THEN Err("PosOverflow")
    ELSE ParseDigits(s, i + 1, acc * 10 + DigitValue(s[i]))

\* str::parse::<u16>: an empty string, a lone sign and a minus sign are
\* errors; a leading plus sign is accepted
ParseU16(s) ==
    IF Len(s) = 0 THEN Err("Empty")
    ELSE IF Len(s) = 1 /\ s[1] \in {"+", "-"} THEN Err("InvalidDigit")
    ELSE IF s[1] = "+" THEN ParseDigits(s, 2, 0)
    ELSE ParseDigits(s, 1, 0)

\* s.split('.'): the pieces between the dots, empty pieces included
RECURSIVE Split(_, _, _)
Split(s, i, piece) ==
    IF i > Len(s) THEN <<piece>>
    ELSE IF s[i] = "." THEN <<piece>> \o Split(s, i + 1, <<>>)
    ELSE Split(s, i + 1, Append(piece, s[i]))

Version_parse(s) ==
    LET parts == Split(s, 1, <<>>)
    IN  IF Len(parts) < 3 \/ Len(parts) > 4 THEN Err("Invalid version format")
        ELSE IF ParseU16(parts[1]).tag = "Err" THEN Err("Invalid major version")
        ELSE IF ParseU16(parts[2]).tag = "Err" THEN Err("Invalid minor version")
        ELSE IF ParseU16(parts[3]).tag = "Err" THEN Err("Invalid patch version")
        ELSE IF Len(parts) > 3 /\ ParseU16(parts[4]).tag = "Err"
             THEN Err("Invalid build number")
        ELSE Ok(Version(ParseU16(parts[1]).value, ParseU16(parts[2]).value,
                        ParseU16(parts[3]).value,
                        IF Len(parts) > 3 THEN ParseU16(parts[4]).value
                        ELSE 0))

\* A plausible slip: the build number is never written.
Version_to_string_without_build(v) ==
    FormatU16(v.major) \o <<".">> \o FormatU16(v.minor) \o <<".">>
        \o FormatU16(v.patch)

Version_to_string(v) ==
    IF v.build = 0
    THEN FormatU16(v.major) \o <<".">> \o FormatU16(v.minor) \o <<".">>
            \o FormatU16(v.patch)
    ELSE FormatU16(v.major) \o <<".">> \o FormatU16(v.minor) \o <<".">>
            \o FormatU16(v.patch) \o <<".">> \o FormatU16(v.build)

-----------------------------------------------------------------------------
(***************************************************************************)
(* Name (src/src/types/name.rs).  A u64 is its 8 bytes, the lowest first;  *)
(* a string is the sequence of its bytes.                                  *)
(***************************************************************************)

\* a ^ b on the lowest n bits
RECURSIVE BitXor(_, _, _)
BitXor(a, b, n) ==
    IF n = 0 THEN 0
    ELSE ((a + b) % 2) + 2 * BitXor(a \div 2, b \div 2, n - 1)

\* hash ^ (byte as u64)
U64XorByte(h, byte) == [h EXCEPT ![1] = BitXor(h[1], byte, 8)]

\* The sum of the products of the bytes of a and b that fall on byte k
RECURSIVE ColumnSum(_, _, _, _)
ColumnSum(a, b, k, i) ==
    IF i > k THEN 0 ELSE a[i] * b[k + 1 - i] + ColumnSum(a, b, k, i + 1)

RECURSIVE MulColumns(_, _, _, _)
MulColumns(a, b, k, carry) ==
    IF k > 8 THEN <<>>
    ELSE LET t == ColumnSum(a, b, k, 1) + carry
         IN  <<t % 256>> \o MulColumns(a, b, k + 1, t \div 256)

\* u64::wrapping_mul: the product modulo 2^64
wrapping_mul(a, b) == MulColumns(a, b, 1, 0)

\* 0xcbf29ce484222325
FNV_OFFSET_BASIS == <<37, 35, 34, 132, 228, 156, 242, 203>>

\* 0x100000001b3
FNV_PRIME == <<179, 1, 0, 0, 0, 1, 0, 0>>

\* u64::default()
U64Zero == <<0, 0, 0, 0, 0, 0, 0, 0>>

RECURSIVE HashBytes(_, _, _)
HashBytes(s, i, hash) ==
    IF i > Len(s) THEN hash
    ELSE HashBytes(s, i + 1, wrapping_mul(U64XorByte(hash, s[i]), FNV_PRIME))

calculate_hash(s) == HashBytes(s, 1, FNV_OFFSET_BASIS)

Name(value, hash) == [value |-> value, hash |-> hash]

Name_new(value) == Name(value, calculate_hash(value))

Name_default == Name_new(<<>>)

Name_hash(n) == n.hash

\* derive(Serialize) with #[serde(skip)] on hash: only value is written
Name_serialize(n) == [value |-> n.value]

\* derive(Deserialize) with #[serde(skip)] on hash: value is read and hash
\* is u64::default()
Name_deserialize(doc) == Name(doc.value, U64Zero)

-----------------------------------------------------------------------------
(***************************************************************************)
(* VectorExt::is_nearly_zero (src/src/types/vector.rs), in Fl              *)
(***************************************************************************)

is_nearly_zero(v, tolerance) ==
    FlLe(length_squared(v), FlMul(tolerance, tolerance))

-----------------------------------------------------------------------------
(***************************************************************************)
(* Calls on Rotator                                                        *)
(***************************************************************************)

\* Largest angle (degrees) given to normalize_angle; angles are tried in
\* half-degree steps.
MaxAngle == 900

Angles == {k * (ONE \div 2) : k \in (-2 * MaxAngle)..(2 * MaxAngle)}

\* Degrees tried on each axis of a Rotator: inside the principal range,
\* near and at its ends (gimbal lock at pitch +-90, the wrap at +-180), and
\* beyond it.
PitchDegrees == {-135, -90, -85, -30, 0, 45, 85, 90, 120}

YawDegrees == {-270, -180, -175, -90, 0, 45, 175, 180, 540}

RollDegrees == {-180, -175, -60, 0, 90, 175, 200}

Rotators ==
    {Rotator(Fx(p), Fx(y), Fx(r)) :
        p \in PitchDegrees, y \in YawDegrees, r \in RollDegrees}

CallNormalizeAngle ==
    /\ op = NoCall
    /\ \E a \in Angles :
        /\ op' = "normalize_angle"
        /\ arg' = [angle |-> a]
        /\ res' = normalize_angle(a)

CallToQuaternion ==
    /\ op = NoCall
    /\ \E r \in Rotators :
        /\ op' = "to_quaternion"
        /\ arg' = [rotator |-> r]
        /\ res' = to_quaternion(r)

\* Rotator::from_quaternion applied to the quaternion just made; `of`
\* remembers the rotator it was made of.
CallFromQuaternion ==
    /\ op = "to_quaternion"
    /\ op' = "from_quaternion"
    /\ arg' = [quat |-> res, of |-> arg.rotator]
    /\ res' = from_quaternion(res)

\* The revision of src/src/rotator.rs
CallToQuaternionYXZ ==
    /\ op = NoCall
    /\ \E r \in Rotators :
        /\ op' = "rotator.rs to_quaternion"
        /\ arg' = [rotator |-> r]
        /\ res' = to_quaternion_YXZ(r)

NextEuler ==
    \/ CallToQuaternion
    \/ CallFromQuaternion
    \/ CallToQuaternionYXZ

SpecEuler == InitNew /\ [][NextEuler]_vars

BasisRotators == Rotators \cup {Rotator(0, Fx(90), 0)}

CallGetForwardVector ==
    /\ op = NoCall
    /\ \E r \in BasisRotators :
        /\ op' = "get_forward_vector"
        /\ arg' = [rotator |-> r]
        /\ res' = get_forward_vector(r)

CallGetRightVector ==
    /\ op = NoCall
    /\ \E r \in BasisRotators :
        /\ op' = "get_right_vector"
        /\ arg' = [rotator |-> r]
        /\ res' = get_right_vector(r)

CallGetUpVector ==
    /\ op = NoCall
    /\ \E r \in BasisRotators :
        /\ op' = "get_up_vector"
        /\ arg' = [rotator |-> r]
        /\ res' = get_up_vector(r)

NextBasis ==
    \/ CallGetForwardVector
    \/ CallGetRightVector
    \/ CallGetUpVector

SpecBasis == InitNew /\ [][NextBasis]_vars

NextRot ==
    \/ CallNormalizeAngle
    \/ CallToQuaternion
    \/ CallFromQuaternion

SpecRot == InitNew /\ [][NextRot]_vars

-----------------------------------------------------------------------------
(***************************************************************************)
(* Calls on Transform                                                      *)
(***************************************************************************)

Locations == {VecZERO, Vec(Fx(10), 0, 0), Vec(Fx(1), Fx(2), Fx(3))}

\* No turn, a quarter turn and an eighth of a turn about the vertical axis,
\* and a turn on all three axes.
XfRotators ==
    {Rotator(0, 0, 0), Rotator(0, Fx(90), 0), Rotator(0, Fx(45), 0),
     Rotator(Fx(30), Fx(45), Fx(60))}

\* Uniform (1, 2, mirrored) and non-uniform scale; every component non-zero.
Scales ==
    {VecONE, Vec(Fx(2), Fx(2), Fx(2)), Vec(-ONE, -ONE, -ONE),
     Vec(Fx(1), Fx(2), Fx(1))}

Transforms ==
    {from_location_rotator_scale(l, r, sc) :
        l \in Locations, r \in XfRotators, sc \in Scales}

CallCombine ==
    /\ op = NoCall
    /\ \E a \in Transforms, b \in Transforms :
        /\ op' = "combine"
        /\ arg' = [a |-> a, b |-> b]
        /\ res' = combine(a, b)

CallInverse ==
    /\ op = NoCall
    /\ \E t \in Transforms :
        /\ op' = "inverse"
        /\ arg' = [t |-> t]
        /\ res' = inverse(t)

\* t.combine(t.inverse()), on the inverse just computed.
CallCombineWithInverse ==
    /\ op = "inverse"
    /\ op' = "combine_with_inverse"
    /\ arg' = [a |-> arg.t, b |-> res]
    /\ res' = combine(arg.t, res)

XfTransforms == Transforms \cup {IDENTITY}

XfPoints ==
    {VecZERO, Vec(ONE, 0, 0), Vec(0, ONE, Fx(2)), Vec(Fx(1), Fx(2), Fx(3)),
     Vec(-Fx(2), 0, Fx(1))}

CallTransformPoint ==
    /\ op = NoCall
    /\ \E t \in XfTransforms, point \in XfPoints :
        /\ op' = "transform_point"
        /\ arg' = [t |-> t, p |-> point]
        /\ res' = transform_point(t, point)

CallTransformVector ==
    /\ op = NoCall
    /\ \E t \in XfTransforms, vector \in XfPoints :
        /\ op' = "transform_vector"
        /\ arg' = [t |-> t, p |-> vector]
        /\ res' = transform_vector(t, vector)

CallTransformDirection ==
    /\ op = NoCall
    /\ \E t \in XfTransforms, direction \in XfPoints :
        /\ op' = "transform_direction"
        /\ arg' = [t |-> t, p |-> direction]
        /\ res' = transform_direction(t, direction)

NextXfPoint ==
    \/ CallTransformPoint
    \/ CallTransformVector
    \/ CallTransformDirection

SpecXfPoint == InitNew /\ [][NextXfPoint]_vars

QuatNeg(q) == Quat(-q.x, -q.y, -q.z, -q.w)

\* Transforms compared: a few of Transforms, the same moved or scaled a
\* little, and the same with the rotation written as the opposite
\* quaternion (Transform::new takes any quaternion).
EqBase ==
    {IDENTITY,
     from_location_rotator_scale(Vec(Fx(1), Fx(2), Fx(3)),
                                 Rotator(0, Fx(90), 0), VecONE),
     from_location_rotator_scale(Vec(Fx(1), Fx(2), Fx(3)),
                                 Rotator(0, Fx(90), 0), Vec(Fx(2), Fx(2), Fx(2))),
     from_location_rotator_scale(Vec(Fx(1), Fx(2), Fx(3)) ,
                                 Rotator(0, Fx(91), 0), VecONE),
     from_location_rotator_scale(Vec(Fx(1), Fx(2), Fx(3) + (ONE \div 2000)),
                                 Rotator(0, Fx(90), 0), VecONE),
     from_location_rotator_scale(VecZERO, Rotator(Fx(30), Fx(45), Fx(60)),
                                 VecONE)}

EqTransforms ==
    EqBase \cup {Transform(t.location, QuatNeg(t.rotation), t.scale) :
                    t \in EqBase}

\* 0.001, 0.05, 1
EqTolerances == {ONE \div 1000, ONE \div 20, ONE}

CallIsNearlyEqual ==
    /\ op = NoCall
    /\ \E a \in EqTransforms, b \in EqTransforms, tolerance \in EqTolerances :
        /\ op' = "is_nearly_equal"
        /\ arg' = [a |-> a, b |-> b, tolerance |-> tolerance]
        /\ res' = is_nearly_equal(a, b, tolerance)

NextXfEq == CallIsNearlyEqual

SpecXfEq == InitNew /\ [][NextXfEq]_vars

NextXf ==
    \/ CallCombine
    \/ CallInverse
    \/ CallCombineWithInverse

SpecXf == InitNew /\ [][NextXf]_vars

-----------------------------------------------------------------------------
(***************************************************************************)
(* Calls on BoundingBox                                                    *)
(***************************************************************************)

\* Largest x coordinate of the boxes and points tried.
MaxCoord == 2

\* Longest point list given to from_points.
MaxPts == 3

CoordsX == {Fx(n) : n \in 0..MaxCoord}

\* The three axes run the same code; y and z take the two ends of a unit
\* interval, x the full range.
CoordsYZ == {Fx(0), Fx(1)}

Points == {Vec(x, y, z) : x \in CoordsX, y \in CoordsYZ, z \in CoordsYZ}

\* Every box with corners in Points (valid, flat, single-point, inverted),
\* and the EMPTY sentinel.
Boxes == {Box(mn, mx) : mn \in Points, mx \in Points} \cup {EMPTY}

PointLists == UNION {[1..n -> Points] : n \in 0..MaxPts}

CallFromPoints ==
    /\ op = NoCall
    /\ \E pts \in PointLists :
        /\ op' = "from_points"
        /\ arg' = [points |-> pts]
        /\ res' = from_points(pts)

CallIntersects ==
    /\ op = NoCall
    /\ \E a \in Boxes, b \in Boxes :
        /\ op' = "intersects"
        /\ arg' = [a |-> a, b |-> b]
        /\ res' = intersects(a, b)

CallIntersection ==
    /\ op = NoCall
    /\ \E a \in Boxes, b \in Boxes :
        /\ op' = "intersection"
        /\ arg' = [a |-> a, b |-> b]
        /\ res' = intersection(a, b)

CallExpandToInclude ==
    /\ op = NoCall
    /\ \E a \in Boxes, p \in Points :
        /\ op' = "expand_to_include"
        /\ arg' = [a |-> a, p |-> p]
        /\ res' = expand_to_include(a, p)

CallExpandToIncludeBox ==
    /\ op = NoCall
    /\ \E a \in Boxes, b \in Boxes :
        /\ op' = "expand_to_include_box"
        /\ arg' = [a |-> a, b |-> b]
        /\ res' = expand_to_include_box(a, b)

\* Transforms applied to boxes: none, a translation, a quarter turn with
\* scale 2, an eighth of a turn.
BoxTransforms ==
    {IDENTITY,
     from_location_rotator_scale(Vec(Fx(1), Fx(2), Fx(3)), Rotator(0, 0, 0), VecONE),
     from_location_rotator_scale(VecZERO, Rotator(0, Fx(90), 0),
                                 Vec(Fx(2), Fx(2), Fx(2))),
     from_location_rotator_scale(Vec(Fx(1), 0, 0), Rotator(0, Fx(45), 0), VecONE)}

CallTransform ==
    /\ op = NoCall
    /\ \E a \in Boxes, t \in BoxTransforms :
        /\ op' = "transform"
        /\ arg' = [a |-> a, t |-> t]
        /\ res' = transform(a, t)

\* Spheres around and inside the boxes: centers on whole coordinates from
\* -1 to MaxCoord + 1, radius 0, 1/2, 1 and 2.
SphereCenters ==
    {Vec(Fx(x), Fx(y), Fx(z)) :
        x \in (-1)..(MaxCoord + 1), y \in {-1, 0, 2}, z \in {0, 1}}

SphereRadii == {0, ONE \div 2, ONE, Fx(2)}

Spheres == {FxSphere(c, r) : c \in SphereCenters, r \in SphereRadii}

\* Every finite box of Boxes (the infinities of EMPTY stand for comparisons
\* only, not for the arithmetic of a distance).
CallIntersectsBox ==
    /\ op = NoCall
    /\ \E sphere \in Spheres, bbox \in Boxes \ {EMPTY} :
        /\ op' = "intersects_box"
        /\ arg' = [sphere |-> sphere, bbox |-> bbox]
        /\ res' = intersects_box(sphere, bbox)

NextSphereBox == CallIntersectsBox

SpecSphereBox == InitNew /\ [][NextSphereBox]_vars

NextBox ==
    \/ CallTransform
    \/ CallFromPoints
    \/ CallIntersects
    \/ CallIntersection
    \/ CallExpandToInclude
    \/ CallExpandToIncludeBox

SpecBox == InitNew /\ [][NextBox]_vars

-----------------------------------------------------------------------------
(***************************************************************************)
(* Calls on VectorExt                                                      *)
(***************************************************************************)

\* The float nearest to num / den times 2^e2 (num, den small naturals)
FlRatio(s, num, den, e2) ==
    RoundPack(s, (num * 2^MantBits) \div den, e2 - MantBits)

FlMinSubnormal == FlFin(1, 1, MinExp)

FlMax == FlFin(1, 2^MantBits - 1, MaxExp)

\* Components: zero; the smallest subnormal; values about the square root
\* of the smallest subnormal, whose squares underflow; ordinary values;
\* values whose squares overflow; the largest finite value; infinities; NaN.
ComponentsX ==
    {FlZero, FlMinSubnormal,
     FlRatio(1, 9, 10, -ExpRange), FlRatio(1, 7, 10, -ExpRange),
     FlRatio(1, 1, 1, -ExpRange), FlRatio(1, 3, 1, -ExpRange),
     FlRatio(1, 3, 5, 0), FlOne, FlRatio(1, 3, 1, 0), FlRatio(-1, 4, 1, 0),
     FlRatio(1, 1, 1, (ExpRange \div 2) + 1), FlMax,
     FlInf(1), FlInf(-1), FlNaN}

ComponentsY ==
    {FlZero, FlRatio(1, 4, 5, 0), FlRatio(1, 4, 1, 0),
     FlRatio(-1, 9, 10, -ExpRange), FlInf(1), FlNaN}

ComponentsZ == {FlZero, FlOne, [FlMax EXCEPT !.s = -1]}

\* Tolerances: zero, one whose square underflows, the library's
\* KINDA_SMALL_NUMBER-sized default, ordinary (1, and 4, the length of some
\* of the vectors), negative, huge, infinite, NaN.
Tolerances ==
    {FlZero, FlMinSubnormal, FlRatio(1, 1, 1, -(ExpRange \div 2)), FlOne,
     FlRatio(1, 4, 1, 0), FlRatio(-1, 1, 1, 0), FlMax, FlInf(1), FlNaN}

CallGetSafeNormal ==
    /\ op = NoCall
    /\ \E x \in ComponentsX, y \in ComponentsY, z \in ComponentsZ,
          tolerance \in Tolerances :
        /\ op' = "get_safe_normal"
        /\ arg' = [v |-> DVec3(x, y, z), tolerance |-> tolerance]
        /\ res' = get_safe_normal(DVec3(x, y, z), tolerance)

NextVec == CallGetSafeNormal

SpecVec == InitNew /\ [][NextVec]_vars

-----------------------------------------------------------------------------
(***************************************************************************)
(* Calls that construct a Ray                                              *)
(***************************************************************************)

\* Finite components only: zero, ordinary values, one whose square
\* underflows and one whose square overflows.
RayComponentsX ==
    {FlZero, FlRatio(1, 3, 1, 0), FlRatio(-1, 4, 1, 0), FlRatio(1, 3, 5, 0),
     FlOne, FlRatio(1, 1, 1, -(ExpRange + 2)),
     FlRatio(1, 1, 1, (ExpRange \div 2) + 1)}

RayComponentsY == {FlZero, FlRatio(1, 4, 1, 0), FlRatio(-1, 1, 1, 0)}

RayComponentsZ == {FlZero, FlOne}

RayVectors ==
    {DVec3(x, y, z) :
        x \in RayComponentsX, y \in RayComponentsY, z \in RayComponentsZ}

RayOrigins ==
    {DVec3ZERO, DVec3(FlOne, FlRatio(1, 4, 1, 0), FlZero),
     DVec3(FlRatio(1, 3, 1, 0), FlZero, FlOne)}

CallRayNew ==
    /\ op = NoCall
    /\ \E origin \in RayOrigins, direction \in RayVectors :
        /\ op' = "Ray::new"
        /\ arg' = [origin |-> origin, direction |-> direction]
        /\ res' = RayNew(origin, direction)

CallFromOriginToTarget ==
    /\ op = NoCall
    /\ \E origin \in RayOrigins, target \in RayVectors :
        /\ op' = "Ray::from_origin_to_target"
        /\ arg' = [origin |-> origin, target |-> target]
        /\ res' = from_origin_to_target(origin, target)

NextRayNew ==
    \/ CallRayNew
    \/ CallFromOriginToTarget

SpecRayNew == InitNew /\ [][NextRayNew]_vars

-----------------------------------------------------------------------------
(***************************************************************************)
(* Calls on Ray                                                            *)
(***************************************************************************)

\* Unit directions: along the axes and (0.6, 0.8, 0).
UnitDirections ==
    {Vec(ONE, 0, 0), Vec(0, -ONE, 0), Vec(0, 0, ONE),
     Vec(FxDiv(Fx(3), Fx(5)), FxDiv(Fx(4), Fx(5)), 0)}

QueryOrigins == {VecZERO, Vec(Fx(1), Fx(2), 0), Vec(-Fx(1), 0, Fx(3))}

Rays == {FxRay(o, dir) : o \in QueryOrigins, dir \in UnitDirections}

MaxQuery == 3

\* Points before, beside and behind the rays.
QueryPoints ==
    {Vec(Fx(x), Fx(y), Fx(z)) :
        x \in (-2)..MaxQuery, y \in {-1, 0, 4}, z \in {0, 2}}

CallRayClosestPointTo ==
    /\ op = NoCall
    /\ \E ray \in Rays, point \in QueryPoints :
        /\ op' = "Ray::closest_point_to"
        /\ arg' = [ray |-> ray, point |-> point]
        /\ res' = Ray_closest_point_to(ray, point)

CallRayDistanceToPoint ==
    /\ op = NoCall
    /\ \E ray \in Rays, point \in QueryPoints :
        /\ op' = "Ray::distance_to_point"
        /\ arg' = [ray |-> ray, point |-> point]
        /\ res' = Ray_distance_to_point(ray, point)

NextRay ==
    \/ CallRayClosestPointTo
    \/ CallRayDistanceToPoint

SpecRay == InitNew /\ [][NextRay]_vars

-----------------------------------------------------------------------------
(***************************************************************************)
(* Calls on LineSegment                                                    *)
(***************************************************************************)

SegmentStarts == {DVec3ZERO, DVec3(FlOne, FlRatio(1, 2, 1, 0), FlZero)}

\* end - start: nothing, 1/32 and 1/4 along X, (3,4,0), 2 down Z
SegmentVectors ==
    {DVec3ZERO, DVec3(FlRatio(1, 1, 1, -5), FlZero, FlZero),
     DVec3(FlRatio(1, 1, 1, -2), FlZero, FlZero),
     DVec3(FlRatio(1, 3, 1, 0), FlRatio(1, 4, 1, 0), FlZero),
     DVec3(FlZero, FlZero, FlRatio(-1, 2, 1, 0))}

Segments ==
    {LineSegment(a, DVec3Add(a, v)) : a \in SegmentStarts,
                                      v \in SegmentVectors}

SegmentPoints ==
    {DVec3(x, y, z) :
        x \in {FlRatio(-1, 1, 1, 0), FlZero, FlRatio(1, 1, 1, -3), FlOne,
               FlRatio(1, 5, 1, 0)},
        y \in {FlZero, FlRatio(1, 2, 1, 0)},
        z \in {FlZero, FlRatio(-1, 1, 1, 0)}}

CallSegmentClosestPointTo ==
    /\ op = NoCall
    /\ \E seg \in Segments, point \in SegmentPoints :
        /\ op' = "LineSegment::closest_point_to"
        /\ arg' = [seg |-> seg, point |-> point]
        /\ res' = LineSegment_closest_point_to(seg, point)

\* The revision of src/src/types/math.rs
CallSegmentClosestPointToUnguarded ==
    /\ op = NoCall
    /\ \E seg \in Segments, point \in SegmentPoints :
        /\ op' = "math.rs LineSegment::closest_point_to"
        /\ arg' = [seg |-> seg, point |-> point]
        /\ res' = LineSegment_closest_point_to_unguarded(seg, point)

NextSegment ==
    \/ CallSegmentClosestPointTo
    \/ CallSegmentClosestPointToUnguarded

SpecSegment == InitNew /\ [][NextSegment]_vars

-----------------------------------------------------------------------------
(***************************************************************************)
(* Calls on BoundingSphere::from_points                                    *)
(***************************************************************************)

MaxSphereCoord == 3

SpherePoints ==
    {DVec3(FlRatio(1, x, 1, 0), FlRatio(1, y, 1, 0), FlRatio(1, z, 1, 0)) :
        x \in 0..MaxSphereCoord, y \in 0..2, z \in {0, 3}}

SpherePointLists ==
    {<<>>} \cup {<<p>> : p \in SpherePoints}
           \cup {<<p, q>> : p \in SpherePoints, q \in SpherePoints}

CallSphereFromPoints ==
    /\ op = NoCall
    /\ \E points \in SpherePointLists :
        /\ op' = "BoundingSphere::from_points"
        /\ arg' = [points |-> points]
        /\ res' = Sphere_from_points(points)

NextSphereOfPoints == CallSphereFromPoints

SpecSphereOfPoints == InitNew /\ [][NextSphereOfPoints]_vars

-----------------------------------------------------------------------------
(***************************************************************************)
(* Calls on BoundingSphere::transform                                      *)
(***************************************************************************)

FlInt(n) == IF n < 0 THEN FlRatio(-1, -n, 1, 0) ELSE FlRatio(1, n, 1, 0)

\* Radius 0, 1, 5/2
FlSpheres ==
    {BoundingSphere(c, r) :
        c \in {DVec3ZERO, DVec3(FlInt(1), FlInt(2), FlZero)},
        r \in {FlZero, FlOne, FlRatio(1, 5, 2, 0)}}

\* No turn; a third of a turn about (1,1,1), whose matrix is exact; turns
\* about Z by 2 atan(3/4) and by 36 degrees, rounded as the format rounds.
FlRotations ==
    {FlQuat(FlZero, FlZero, FlZero, FlOne),
     FlQuat(FlHalf, FlHalf, FlHalf, FlHalf),
     FlQuat(FlZero, FlZero, FlRatio(1, 3, 5, 0), FlRatio(1, 4, 5, 0)),
     FlQuat(FlZero, FlZero, FlRatio(1, 30902, 100000, 0),
            FlRatio(1, 95106, 100000, 0))}

FlScales ==
    {DVec3(FlOne, FlOne, FlOne), DVec3(FlInt(3), FlInt(3), FlInt(3)),
     DVec3(FlOne, FlInt(2), FlOne), DVec3(FlInt(-2), FlOne, FlHalf)}

FlTransforms ==
    {FlTransform(l, q, sc) :
        l \in {DVec3ZERO, DVec3(FlInt(1), FlZero, FlInt(-2))},
        q \in FlRotations, sc \in FlScales}

CallSphereTransform ==
    /\ op = NoCall
    /\ \E sphere \in FlSpheres, t \in FlTransforms :
        /\ op' = "BoundingSphere::transform"
        /\ arg' = [sphere |-> sphere, t |-> t]
        /\ res' = Sphere_transform(sphere, t)

NextSphereTransform == CallSphereTransform

SpecSphereTransform == InitNew /\ [][NextSphereTransform]_vars

-----------------------------------------------------------------------------
(***************************************************************************)
(* Calls on BoundingBox::closest_point_to and distance_to_point            *)
(***************************************************************************)

\* Valid boxes: a single point, a flat box, a box with volume, at two
\* places.
FlBoxes ==
    {FlBox(mn, DVec3Add(mn, d)) :
        mn \in {DVec3ZERO, DVec3(FlInt(-1), FlZero, FlOne)},
        d \in {DVec3ZERO, DVec3(FlOne, FlZero, FlZero),
               DVec3(FlOne, FlInt(2), FlOne)}}

\* A value so small that its square rounds to zero
FlTiny == FlRatio(1, 1, 1, -(ExpRange + 2))

\* Points inside, on the faces, outside, and outside by FlTiny
FlBoxPoints ==
    {DVec3(x, y, z) :
        x \in {FlNeg(FlTiny), FlZero, FlHalf, FlOne, FlInt(3)},
        y \in {FlInt(-1), FlZero, FlAdd(FlInt(2), FlRatio(1, 1, 1, -6))},
        z \in {FlZero, FlOne, FlInt(2)}}

CallClosestPointTo ==
    /\ op = NoCall
    /\ \E b \in FlBoxes, point \in FlBoxPoints :
        /\ op' = "BoundingBox::closest_point_to"
        /\ arg' = [b |-> b, point |-> point]
        /\ res' = Fl_closest_point_to(b, point)

CallDistanceToPoint ==
    /\ op = NoCall
    /\ \E b \in FlBoxes, point \in FlBoxPoints :
        /\ op' = "BoundingBox::distance_to_point"
        /\ arg' = [b |-> b, point |-> point]
        /\ res' = Fl_distance_to_point(b, point)

NextBoxPoint ==
    \/ CallClosestPointTo
    \/ CallDistanceToPoint

SpecBoxPoint == InitNew /\ [][NextBoxPoint]_vars

-----------------------------------------------------------------------------
(***************************************************************************)
(* Calls on Plane                                                          *)
(***************************************************************************)

\* Normals given to from_point_normal: along an axis, not of unit length,
\* slanted
PlaneNormals ==
    {Vec(0, 0, ONE), Vec(0, -Fx(2), 0), Vec(Fx(3), Fx(4), 0),
     Vec(Fx(1), Fx(1), Fx(1)), Vec(Fx(1), -Fx(2), Fx(2))}

PlanePoints ==
    {Vec(Fx(x), Fx(y), Fx(z)) : x \in {-1, 0, 2}, y \in {0, 3}, z \in {-2, 1}}

\* Triples of points that are not on one line
PlaneTriples ==
    {<<VecZERO, Vec(ONE, 0, 0), Vec(0, ONE, 0)>>,
     <<Vec(Fx(1), Fx(2), Fx(5)), Vec(Fx(3), Fx(2), Fx(5)),
       Vec(Fx(1), -Fx(1), Fx(5))>>,
     <<Vec(Fx(1), 0, 0), Vec(0, Fx(1), 0), Vec(0, 0, Fx(1))>>,
     <<Vec(-Fx(1), Fx(2), 0), Vec(Fx(2), 0, Fx(1)), Vec(0, Fx(3), -Fx(2))>>}

\* The planes the constructors make
Planes ==
    {Plane_from_point_normal(p, n) :
        p \in {VecZERO, Vec(Fx(1), Fx(2), Fx(5))}, n \in PlaneNormals}
    \cup {Plane_from_three_points(t[1], t[2], t[3]) : t \in PlaneTriples}

CallFromPointNormal ==
    /\ op = NoCall
    /\ \E point \in PlanePoints, normal \in PlaneNormals :
        /\ op' = "Plane::from_point_normal"
        /\ arg' = [point |-> point, normal |-> normal]
        /\ res' = Plane_from_point_normal(point, normal)

CallFromThreePoints ==
    /\ op = NoCall
    /\ \E t \in PlaneTriples :
        /\ op' = "Plane::from_three_points"
        /\ arg' = [p1 |-> t[1], p2 |-> t[2], p3 |-> t[3]]
        /\ res' = Plane_from_three_points(t[1], t[2], t[3])

CallPlaneDistanceToPoint ==
    /\ op = NoCall
    /\ \E plane \in Planes, point \in PlanePoints :
        /\ op' = "Plane::distance_to_point"
        /\ arg' = [plane |-> plane, point |-> point]
        /\ res' = Plane_distance_to_point(plane, point)

CallProjectPoint ==
    /\ op = NoCall
    /\ \E plane \in Planes, point \in PlanePoints :
        /\ op' = "Plane::project_point"
        /\ arg' = [plane |-> plane, point |-> point]
        /\ res' = Plane_project_point(plane, point)

NextPlane ==
    \/ CallFromPointNormal
    \/ CallFromThreePoints
    \/ CallPlaneDistanceToPoint
    \/ CallProjectPoint

SpecPlane == InitNew /\ [][NextPlane]_vars

-----------------------------------------------------------------------------
(***************************************************************************)
(* Calls on lerp_rotator                                                   *)
(***************************************************************************)

\* Degrees on the axes of the two rotators: apart by less than, exactly and
\* more than half a turn, and by more than a turn
LerpDegrees == {-350, -180, -90, 0, 10, 90, 180, 190, 350}

LerpRotators ==
    {Rotator(Fx(p), Fx(y), Fx(r)) :
        p \in LerpDegrees, y \in {-170, 0, 540}, r \in {0, 45}}

\* alpha: the two ends, inside, and outside [0, 1]
LerpAlphas == {0, ONE \div 4, ONE \div 2, ONE, -(ONE \div 2), 3 * (ONE \div 2)}

CallLerpRotator ==
    /\ op = NoCall
    /\ \E a \in LerpRotators, b \in LerpRotators, alpha \in LerpAlphas :
        /\ op' = "lerp_rotator"
        /\ arg' = [a |-> a, b |-> b, alpha |-> alpha]
        /\ res' = lerp_rotator(a, b, alpha)

NextLerp == CallLerpRotator

SpecLerp == InitNew /\ [][NextLerp]_vars

-----------------------------------------------------------------------------
(***************************************************************************)
(* Calls on LineSegment::closest_points_to_segment                         *)
(***************************************************************************)

\* Ends of the segments: a grid in the plane z = 0 and one point off it
SegmentEnds ==
    {Vec(Fx(x), Fx(y), 0) : x \in {0, 1, 3, 4}, y \in {-1, 0, 1, 3}}
    \cup {Vec(Fx(2), Fx(2), Fx(2))}

\* Segments of nonzero length
FxSegments ==
    {FxLineSegment(s, e) : s \in {VecZERO, Vec(Fx(1), -Fx(1), 0),
                                  Vec(Fx(4), Fx(3), 0)},
                           e \in SegmentEnds \ {VecZERO, Vec(Fx(1), -Fx(1), 0),
                                                Vec(Fx(4), Fx(3), 0)}}

CallClosestPointsToSegment ==
    /\ op = NoCall
    /\ \E seg \in FxSegments, other \in FxSegments :
        /\ op' = "closest_points_to_segment"
        /\ arg' = [seg |-> seg, other |-> other]
        /\ res' = closest_points_to_segment(seg, other)

NextSegmentPair == CallClosestPointsToSegment

SpecSegmentPair == InitNew /\ [][NextSegmentPair]_vars

-----------------------------------------------------------------------------
(***************************************************************************)
(* Calls on RepMovement: res holds the object (self) and what the last     *)
(* call returned (ret).                                                    *)
(***************************************************************************)

\* Largest NetworkGUID value given as a location base
MaxGuid == 2

Guids == 1..MaxGuid

RepVectors == {VecZERO, Vec(Fx(1), Fx(2), Fx(3))}

\* Server frames (u32; the value is only stored)
Frames == {0, 1, 2147483647}

\* What the caller may pass to get_world_location: no resolver, or one
\* that knows some of the bases
Resolvers ==
    {None} \cup {Some(f) : f \in [Guids -> {None, Some(Vec(Fx(10), 0, 0))}]}

InitRep ==
    \/ /\ op = "RepMovement::new"
       /\ arg = Nothing
       /\ res = [self |-> RepMovement_new, ret |-> Nothing]
    \/ \E location \in RepVectors, yaw \in {0, Fx(90)}, velocity \in RepVectors :
       /\ op = "from_transform"
       /\ arg = [location |-> location, rotation |-> Rotator(0, yaw, 0),
                 velocity |-> velocity]
       /\ res = [self |-> from_transform(location, Rotator(0, yaw, 0), velocity),
                 ret |-> Nothing]

CallSetLocationBase ==
    \E base_guid \in Guids, relative_location \in RepVectors :
        /\ op' = "set_location_base"
        /\ arg' = [base_guid |-> base_guid,
                   relative_location |-> relative_location]
        /\ res' = [self |-> set_location_base(res.self, base_guid,
                                              relative_location),
                   ret |-> Nothing]

CallClearLocationBase ==
    /\ op' = "clear_location_base"
    /\ arg' = Nothing
    /\ res' = [self |-> clear_location_base(res.self), ret |-> Nothing]

CallGetWorldLocation ==
    \E base_transform_fn \in Resolvers :
        /\ op' = "get_world_location"
        /\ arg' = [base_transform_fn |-> base_transform_fn]
        /\ res' = [self |-> res.self,
                   ret |-> get_world_location(res.self, base_transform_fn)]

CallSetServerFrame ==
    \E frame \in Frames :
        /\ op' = "set_server_frame"
        /\ arg' = [frame |-> frame]
        /\ res' = [self |-> set_server_frame(res.self, frame), ret |-> Nothing]

CallSetSimulated ==
    \E simulated \in BOOLEAN :
        /\ op' = "set_simulated"
        /\ arg' = [simulated |-> simulated]
        /\ res' = [self |-> set_simulated(res.self, simulated), ret |-> Nothing]

NextRep ==
    \/ CallSetLocationBase
    \/ CallClearLocationBase
    \/ CallGetWorldLocation
    \/ CallSetServerFrame
    \/ CallSetSimulated

SpecRep == InitRep /\ [][NextRep]_vars

-----------------------------------------------------------------------------
(***************************************************************************)
(* Calls on GameSessionInfo: arg holds the object before the call          *)
(***************************************************************************)

\* Largest max_players given to GameSessionInfo::new
MaxPlayers == 8

\* max_players is an i32: negative values and zero are accepted
MaxPlayersValues == (-2)..MaxPlayers

InitSession ==
    \E max_players \in MaxPlayersValues :
        /\ op = "GameSessionInfo::new"
        /\ arg = [max_players |-> max_players]
        /\ res = [self |-> GameSessionInfo_new(max_players), ret |-> Nothing]

CallAddPlayer ==
    /\ op' = "add_player"
    /\ arg' = [self |-> res.self]
    /\ res' = add_player(res.self)

CallRemovePlayer ==
    /\ op' = "remove_player"
    /\ arg' = [self |-> res.self]
    /\ res' = remove_player(res.self)

CallIsFull ==
    /\ op' = "is_full"
    /\ arg' = [self |-> res.self]
    /\ res' = [self |-> res.self, ret |-> is_full(res.self)]

CallHasAvailableSlots ==
    /\ op' = "has_available_slots"
    /\ arg' = [self |-> res.self]
    /\ res' = [self |-> res.self, ret |-> has_available_slots(res.self)]

NextSession ==
    \/ CallAddPlayer
    \/ CallRemovePlayer
    \/ CallIsFull
    \/ CallHasAvailableSlots

SpecSession == InitSession /\ [][NextSession]_vars

-----------------------------------------------------------------------------
(***************************************************************************)
(* Calls on Version                                                        *)
(***************************************************************************)

\* Values of a field: zero, one digit, two digits, the largest
FieldValues == {0, 7, 10, U16_MAX}

Versions ==
    {Version(a, b, c, d) : a \in FieldValues, b \in FieldValues,
                           c \in FieldValues, d \in FieldValues}

\* Most dot-separated pieces of a text given to parse
MaxParts == 5

\* Pieces of the texts given to parse: numbers of u16, with a leading zero
\* and with a plus sign; and what is no u16: nothing, a minus sign, a
\* letter, 65536
Pieces ==
    {<<"7">>, <<"0", "1">>, <<"+", "1">>, <<"6", "5", "5", "3", "5">>,
     <<>>, <<"-", "1">>, <<"1", "x">>, <<"6", "5", "5", "3", "6">>}

RECURSIVE Join(_, _)
Join(parts, i) ==
    IF i > Len(parts) THEN <<>>
    ELSE IF i = Len(parts) THEN parts[i]
    ELSE parts[i] \o <<".">> \o Join(parts, i + 1)

\* Lists of up to three pieces from all of Pieces, and longer ones that go
\* on with a number or with a letter; the text is the pieces joined by dots
PieceLists ==
    UNION {[1..n -> Pieces] : n \in 1..3}
    \cup {p \o q :
            p \in [1..3 -> {<<"7">>, <<"+", "1">>, <<"1", "x">>}],
            q \in UNION {[1..n -> {<<"0", "1">>, <<>>, <<"1", "x">>}] :
                            n \in 1..(MaxParts - 3)}}

CallVersionToString ==
    /\ op = NoCall
    /\ \E v \in Versions :
        /\ op' = "Version::to_string"
        /\ arg' = [v |-> v]
        /\ res' = Version_to_string(v)

CallVersionParse ==
    /\ op = NoCall
    /\ \E pieces \in PieceLists :
        /\ op' = "Version::parse"
        /\ arg' = [s |-> Join(pieces, 1), pieces |-> pieces]
        /\ res' = Version_parse(Join(pieces, 1))

CallParseOfToString ==
    /\ op = NoCall
    /\ \E v \in Versions :
        /\ op' = "Version::parse(&v.to_string())"
        /\ arg' = [v |-> v]
        /\ res' = Version_parse(Version_to_string(v))

NextVersion ==
    \/ CallVersionToString
    \/ CallVersionParse
    \/ CallParseOfToString

SpecVersion == InitNew /\ [][NextVersion]_vars

-----------------------------------------------------------------------------
(***************************************************************************)
(* Calls that make a Name                                                  *)
(***************************************************************************)

\* Longest value of a Name
MaxNameLen == 3

\* Bytes of the values: A, a, z
NameBytes == {65, 97, 122}

NameValues == UNION {[1..n -> NameBytes] : n \in 0..MaxNameLen}

CallNameNew ==
    /\ op = NoCall
    /\ \E value \in NameValues :
        /\ op' = "Name::new"
        /\ arg' = [value |-> value]
        /\ res' = Name_new(value)

CallNameFrom ==
    /\ op = NoCall
    /\ \E value \in NameValues :
        /\ op' = "Name::from"
        /\ arg' = [value |-> value]
        /\ res' = Name_new(value)

CallNameDefault ==
    /\ op = NoCall
    /\ op' = "Name::default"
    /\ arg' = Nothing
    /\ res' = Name_default

\* serde_json::from_str(&serde_json::to_string(&name))
CallNameFromJson ==
    /\ op = NoCall
    /\ \E value \in NameValues :
        /\ op' = "serde_json::from_str"
        /\ arg' = [name |-> Name_new(value)]
        /\ res' = Name_deserialize(Name_serialize(Name_new(value)))

\* Name::from_binary(&name.to_binary())
CallNameFromBinary ==
    /\ op = NoCall
    /\ \E value \in NameValues :
        /\ op' = "Name::from_binary"
        /\ arg' = [name |-> Name_new(value)]
        /\ res' = Name_deserialize(Name_serialize(Name_new(value)))

NextName ==
    \/ CallNameNew
    \/ CallNameFrom
    \/ CallNameDefault
    \/ CallNameFromJson
    \/ CallNameFromBinary

SpecName == InitNew /\ [][NextName]_vars

-----------------------------------------------------------------------------
(***************************************************************************)
(* Calls on VectorExt::is_nearly_zero and get_safe_normal                  *)
(***************************************************************************)

CallIsNearlyZero ==
    /\ op = NoCall
    /\ \E x \in ComponentsX, y \in ComponentsY, z \in ComponentsZ,
          tolerance \in Tolerances :
        /\ op' = "is_nearly_zero"
        /\ arg' = [v |-> DVec3(x, y, z), tolerance |-> tolerance]
        /\ res' = is_nearly_zero(DVec3(x, y, z), tolerance)

NextVecZero ==
    \/ CallIsNearlyZero
    \/ CallGetSafeNormal

SpecVecZero == InitNew /\ [][NextVecZero]_vars

-----------------------------------------------------------------------------
(***************************************************************************)
(* Properties of BoundingBox, checked under SpecBox                        *)
(***************************************************************************)

\* points with the elements at i and j exchanged.
SwapAt(points, i, j) ==
    [k \in 1..Len(points) |->
        IF k = i THEN points[j] ELSE IF k = j THEN points[i] ELSE points[k]]

\* C7: from_points of a non-empty list of finite points contains every point
\* of the list and is the tightest such box (each min / max coordinate is
\* the coordinate of some point of the list), whatever the order of the
\* list (exchanging any two elements gives the same box); from_points of
\* the empty list is EMPTY.
C7_FromPointsTight ==
    op = "from_points" =>
        LET pts == arg.points
            idx == 1..Len(pts)
        IN  IF pts = <<>> THEN res = EMPTY
            ELSE /\ \A i \in idx : contains_point(res, pts[i])
                 /\ \E i \in idx : res.min.x = pts[i].x
                 /\ \E i \in idx : res.min.y = pts[i].y
                 /\ \E i \in idx : res.min.z = pts[i].z
                 /\ \E i \in idx : res.max.x = pts[i].x
                 /\ \E i \in idx : res.max.y = pts[i].y
                 /\ \E i \in idx : res.max.z = pts[i].z
                 /\ \A i \in idx, j \in idx :
                        from_points(SwapAt(pts, i, j)) = res

\* A list of three points none of which is a corner of the resulting box.
C7_Witness ==
    /\ op = "from_points"
    /\ Len(arg.points) = 3
    /\ \A i \in 1..3 : arg.points[i] # res.min /\ arg.points[i] # res.max
    /\ res.min.x < res.max.x /\ res.min.y < res.max.y /\ res.min.z < res.max.z

\* C8: for all boxes a and b (valid, degenerate, inverted or EMPTY),
\* a.intersects(b) = b.intersects(a) and
\* a.intersection(b) = b.intersection(a).
C8_IntersectSymmetric ==
    /\ op = "intersects" => res = intersects(arg.b, arg.a)
    /\ op = "intersection" => res = intersection(arg.b, arg.a)

\* An inverted box met with a valid one, with a result other than EMPTY.
C8_Witness ==
    /\ op = "intersection"
    /\ ~is_valid(arg.a) /\ arg.a # EMPTY
    /\ is_valid(arg.b) /\ arg.a # arg.b
    /\ res # EMPTY

\* C9: for valid boxes a and b that share a point (touching boundaries
\* included) a.intersection(b) is the box of the componentwise max of the
\* mins and min of the maxes, and it contains a point iff a and b both do;
\* for valid boxes that share no point it is EMPTY.
C9_IntersectionIsCommonPart ==
    (op = "intersection" /\ is_valid(arg.a) /\ is_valid(arg.b)) =>
        LET a == arg.a
            b == arg.b
            share == \E p \in Points : contains_point(a, p) /\ contains_point(b, p)
        IN  IF share
            THEN /\ res = Box(VecMax(a.min, b.min), VecMin(a.max, b.max))
                 /\ \A p \in Points :
                        contains_point(res, p) <=>
                            (contains_point(a, p) /\ contains_point(b, p))
            ELSE res = EMPTY

\* Two boxes with volume that only touch in a face x = const.
C9_Witness ==
    /\ op = "intersection"
    /\ ~is_empty(arg.a) /\ ~is_empty(arg.b)
    /\ arg.a.max.x = arg.b.min.x
    /\ res # EMPTY /\ res.min.x = res.max.x

\* C10 (as claimed): EMPTY.expand_to_include(p) = from_point(p); for every
\* valid box a, a.expand_to_include_box(EMPTY) = a and
\* EMPTY.expand_to_include_box(a) = a.
C10_EmptyIsNeutral ==
    /\ (op = "expand_to_include" /\ arg.a = EMPTY) => res = from_point(arg.p)
    /\ (op = "expand_to_include_box" /\ is_valid(arg.a) /\ arg.b = EMPTY)
            => res = arg.a
    /\ (op = "expand_to_include_box" /\ arg.a = EMPTY /\ is_valid(arg.b))
            => res = arg.b

-----------------------------------------------------------------------------
(***************************************************************************)
(* Properties of Rotator, checked under SpecRot                            *)
(***************************************************************************)

\* C2: for every finite angle a, normalize_angle(a) lies in [-180, 180] and
\* differs from a by a whole number of turns; 180 maps to 180 and -180 to
\* -180.
C2_NormalizeAngleRange ==
    op = "normalize_angle" =>
        /\ res >= Fx(-180) /\ res <= Fx(180)
        /\ (res - arg.angle) % Fx(360) = 0
        /\ arg.angle = Fx(180) => res = Fx(180)
        /\ arg.angle = Fx(-180) => res = Fx(-180)

\* An angle of more than a turn and a half that is folded to a negative one.
C2_Witness ==
    /\ op = "normalize_angle"
    /\ arg.angle > Fx(540)
    /\ res < 0 /\ res > Fx(-180)

\* 0.01 degree
RoundTripTolerance == ONE \div 100

WithinTolerance(a, b) == Abs(a - b) <= RoundTripTolerance

RoundTripMatches ==
    /\ WithinTolerance(res.pitch, arg.of.pitch)
    /\ WithinTolerance(res.yaw, arg.of.yaw)
    /\ WithinTolerance(res.roll, arg.of.roll)

-----------------------------------------------------------------------------
(***************************************************************************)
(* Properties of Transform, checked under SpecXf                           *)
(***************************************************************************)

\* 0.001
NearTolerance == ONE \div 1000

NearPoints(p, q) == VecLength(VecSub(p, q)) <= NearTolerance

UniformScale(t) == t.scale.x = t.scale.y /\ t.scale.y = t.scale.z

ProbePoints == {VecZERO, Vec(ONE, 0, 0), Vec(0, ONE, Fx(2))}

\* C4 (as claimed): a.combine(b) applies a first and then b: for transforms
\* a and b with uniform scale and every point p,
\* a.combine(b).transform_point(p) = b.transform_point(a.transform_point(p)).
C4_CombineAppliesSelfFirst ==
    (op = "combine" /\ UniformScale(arg.a) /\ UniformScale(arg.b)) =>
        \A p \in ProbePoints :
            NearPoints(transform_point(res, p),
                       transform_point(arg.b, transform_point(arg.a, p)))

\* C5 (as claimed): for every transform t whose scale components are all
\* non-zero, t.combine(t.inverse()) is the identity transform within 0.001.
C5_CombineWithInverseIsIdentity ==
    op = "combine_with_inverse" => is_nearly_identity(res, NearTolerance)

-----------------------------------------------------------------------------
(***************************************************************************)
(* BoundingBox::transform, checked under SpecBox                           *)
(***************************************************************************)

\* C6 (as claimed): for every valid box (flat and single-point boxes
\* included) and every transform t, box.transform(t) contains the image
\* under t of each of the 8 corners and is the tightest axis-aligned box
\* that does.
C6_TransformBoundsCorners ==
    (op = "transform" /\ is_valid(arg.a)) =>
        LET c == transformed_corners(arg.a, arg.t)
        IN  /\ \A i \in 1..8 : contains_point(res, c[i])
            /\ \E i \in 1..8 : res.min.x = c[i].x
            /\ \E i \in 1..8 : res.min.y = c[i].y
            /\ \E i \in 1..8 : res.min.z = c[i].z
            /\ \E i \in 1..8 : res.max.x = c[i].x
            /\ \E i \in 1..8 : res.max.y = c[i].y
            /\ \E i \in 1..8 : res.max.z = c[i].z

-----------------------------------------------------------------------------
(***************************************************************************)
(* get_safe_normal, checked under SpecVec                                  *)
(***************************************************************************)

\* Lengths are measured on a grid of 2^(-GridBits): fine against the 0.01
\* of the statement.
GridBits == 12

\* |a| in grid units, rounded down; anything of 2 or more counts as 2
ToGrid(a) ==
    IF a.m = 0 THEN 0
    ELSE IF BitLen(a.m) + a.e > 1 THEN 2 * 2^GridBits
    ELSE IF a.e + GridBits >= 0 THEN a.m * 2^(a.e + GridBits)
    ELSE IF -(a.e + GridBits) > MantBits THEN 0
    ELSE a.m \div 2^(-(a.e + GridBits))

\* the length of the finite vector v, in grid units
GridLength(v) ==
    ISqrt(ToGrid(v.x) * ToGrid(v.x) + ToGrid(v.y) * ToGrid(v.y)
          + ToGrid(v.z) * ToGrid(v.z))

AllFinite(v) == is_finite(v.x) /\ is_finite(v.y) /\ is_finite(v.z)

IsZeroVector(v) == FlIsZero(v.x) /\ FlIsZero(v.y) /\ FlIsZero(v.z)

UnitWithinHundredth(v) == 100 * Abs(GridLength(v) - 2^GridBits) <= 2^GridBits

\* C1 (as claimed): for every vector v (zero, subnormal, huge, infinite and
\* NaN components included) and every tolerance, get_safe_normal(v,
\* tolerance) has no NaN or infinite component and is either the zero
\* vector or a vector whose length is within 0.01 of 1.
C1_SafeNormalZeroOrUnit ==
    op = "get_safe_normal" =>
        /\ AllFinite(res)
        /\ IsZeroVector(res) \/ UnitWithinHundredth(res)

\* The same for the inputs whose squared length is at least the smallest
\* normal number: there the rounding of each step is relative.
SafeNormalOfNormalLength ==
    (op = "get_safe_normal"
        /\ is_finite(length_squared(arg.v))
        /\ length_squared(arg.v).m >= 2^(MantBits - 1)) =>
        /\ AllFinite(res)
        /\ IsZeroVector(res) \/ UnitWithinHundredth(res)

-----------------------------------------------------------------------------
(***************************************************************************)
(* Ray construction, checked under SpecRayNew                              *)
(***************************************************************************)

\* C11 (as claimed): every Ray made by Ray::new(origin, direction) or
\* Ray::from_origin_to_target(origin, target) from finite inputs, a zero
\* direction and target = origin included, holds a direction of unit
\* length: no component NaN or infinite, length 1 (measured within 0.01).
C11_RayDirectionIsUnit ==
    op \in {"Ray::new", "Ray::from_origin_to_target"} =>
        /\ AllFinite(res.direction)
        /\ UnitWithinHundredth(res.direction)

\* The same for the directions whose squared length neither underflows nor
\* overflows.
RayDirectionOfOrdinaryLength ==
    LET d == IF op = "Ray::new" THEN arg.direction
             ELSE DVec3Sub(arg.target, arg.origin)
    IN  (op \in {"Ray::new", "Ray::from_origin_to_target"}
            /\ is_finite(length_squared(d))
            /\ length_squared(d).m >= 2^(MantBits - 1)) =>
            /\ AllFinite(res.direction)
            /\ UnitWithinHundredth(res.direction)

-----------------------------------------------------------------------------
(***************************************************************************)
(* Ray queries, checked under SpecRay                                      *)
(***************************************************************************)

\* Distances along a ray at which its points are compared with the result
SampleDistances == {(n * ONE) \div 4 : n \in 0..32}

\* o + max(0, dot(p - o, d)) * d
NearestOnRay(ray, p) ==
    LET t == VecDot(VecSub(p, ray.origin), ray.direction)
    IN  VecAdd(ray.origin, VecScale(ray.direction, IF t > 0 THEN t ELSE 0))

\* C12: for every ray with unit direction d and origin o and every point
\* p, closest_point_to(p) is o + max(0, dot(p - o, d)) * d: it is the origin
\* when p lies behind the origin, no sampled point of the ray is nearer to
\* p (within 0.001), and distance_to_point(p) is the distance from p to
\* that point.
C12_RayClosestPoint ==
    /\ op = "Ray::closest_point_to" =>
        /\ res = NearestOnRay(arg.ray, arg.point)
        /\ VecDot(VecSub(arg.point, arg.ray.origin), arg.ray.direction) < 0
              => res = arg.ray.origin
        /\ \A dist \in SampleDistances :
              VecLength(VecSub(arg.point, res)) <=
                 VecLength(VecSub(arg.point,
                                  point_at_distance(arg.ray, dist)))
                 + NearTolerance
    /\ op = "Ray::distance_to_point" =>
        res = VecLength(VecSub(arg.point,
                               NearestOnRay(arg.ray, arg.point)))

\* A point behind the origin of a slanted ray, off the ray's line, was
\* answered with the origin.
C12_Witness ==
    /\ op = "Ray::closest_point_to"
    /\ VecDot(VecSub(arg.point, arg.ray.origin), arg.ray.direction) < 0
    /\ res = arg.ray.origin
    /\ Ray_closest_point_on_line(arg.ray, arg.point) # arg.point
    /\ arg.ray.direction = Vec(FxDiv(Fx(3), Fx(5)), FxDiv(Fx(4), Fx(5)), 0)

-----------------------------------------------------------------------------
(***************************************************************************)
(* LineSegment::closest_point_to, checked under SpecSegment                *)
(***************************************************************************)

SegmentCalls ==
    {"LineSegment::closest_point_to", "math.rs LineSegment::closest_point_to"}

\* start + clamp(t, 0, 1) * (end - start),
\* t = dot(p - start, end - start) / |end - start|^2
ProjectionOnSegment(seg, p) ==
    LET v == DVec3Sub(seg.end, seg.start)
        t == FlDiv(DVec3Dot(DVec3Sub(p, seg.start), v), DVec3Dot(v, v))
    IN  DVec3Add(seg.start,
                 DVec3Scale(v, FlClamp(t, FlZero, FlOne)))

\* C13 (as claimed): closest_point_to(p) returns start when start = end and
\* otherwise start + clamp(t, 0, 1) * (end - start), for every segment with
\* start # end however short; the result is never NaN.
C13_SegmentClosestPoint ==
    op \in SegmentCalls =>
        /\ AllFinite(res)
        /\ arg.seg.start = arg.seg.end => res = arg.seg.start
        /\ arg.seg.start # arg.seg.end =>
              res = ProjectionOnSegment(arg.seg, arg.point)

\* The guarded revision on the segments that are a point or at least
\* sqrt(EPSILON) long.
SegmentClosestPointGuarded ==
    (op = "LineSegment::closest_point_to"
        /\ \/ arg.seg.start = arg.seg.end
           \/ ~FlLt(length_squared(DVec3Sub(arg.seg.end, arg.seg.start)),
                    EPSILON)) =>
        /\ AllFinite(res)
        /\ arg.seg.start = arg.seg.end => res = arg.seg.start
        /\ arg.seg.start # arg.seg.end =>
              res = ProjectionOnSegment(arg.seg, arg.point)

-----------------------------------------------------------------------------
(***************************************************************************)
(* Euler order of the Rotator revisions, checked under SpecEuler           *)
(***************************************************************************)

\* q and p are the same rotation: equal or opposite, within 0.001
SameRotation(q, p) ==
    \/ /\ Abs(q.x - p.x) <= NearTolerance /\ Abs(q.y - p.y) <= NearTolerance
       /\ Abs(q.z - p.z) <= NearTolerance /\ Abs(q.w - p.w) <= NearTolerance
    \/ /\ Abs(q.x + p.x) <= NearTolerance /\ Abs(q.y + p.y) <= NearTolerance
       /\ Abs(q.z + p.z) <= NearTolerance /\ Abs(q.w + p.w) <= NearTolerance

\* Qz(yaw) * Qy(pitch) * Qx(roll)
YawPitchRoll(r) ==
    QuatMul(QuatMul(from_rotation_z(to_radians(r.yaw)),
                    from_rotation_y(to_radians(r.pitch))),
            from_rotation_x(to_radians(r.roll)))

\* C14 (as claimed): in every revision of the Rotator module,
\* r.to_quaternion() is the rotation Qz(yaw) * Qy(pitch) * Qx(roll), and
\* from_quaternion extracts with the same order (away from pitch +-90, the
\* rotator it returns converts back to the rotation it was given).
C14_OneEulerOrder ==
    /\ op \in {"to_quaternion", "rotator.rs to_quaternion"} =>
          SameRotation(res, YawPitchRoll(arg.rotator))
    /\ (op = "from_quaternion" /\ Abs(arg.of.pitch) # Fx(90)) =>
          SameRotation(to_quaternion(res), arg.quat)

\* The same for the revision of src/src/types/rotator.rs alone.
EulerOrderOfTypesRevision ==
    /\ op = "to_quaternion" => SameRotation(res, YawPitchRoll(arg.rotator))
    /\ (op = "from_quaternion" /\ Abs(arg.of.pitch) # Fx(90)) =>
          SameRotation(to_quaternion(res), arg.quat)

-----------------------------------------------------------------------------
(***************************************************************************)
(* Basis vectors of a Rotator, checked under SpecBasis                     *)
(***************************************************************************)

NearVector(v, w) ==
    /\ Abs(v.x - w.x) <= NearTolerance
    /\ Abs(v.y - w.y) <= NearTolerance
    /\ Abs(v.z - w.z) <= NearTolerance

-----------------------------------------------------------------------------
(***************************************************************************)
(* Transform applied to points, checked under SpecXfPoint                  *)
(***************************************************************************)

\* rotation * (p scaled componentwise by scale), by the rotation matrix of
\* the quaternion
RotateScaled(t, p) ==
    LET axes == quat_to_axes(t.rotation)
        sp   == VecMulVec(p, t.scale)
    IN  VecAdd(VecAdd(VecScale(axes.x_axis, sp.x),
                      VecScale(axes.y_axis, sp.y)),
               VecScale(axes.z_axis, sp.z))

\* C16: for every transform t and vector p, transform_vector(t, p) is
\* rotation * (p scaled componentwise by t.scale), transform_point(t, p) is
\* transform_vector(t, p) + t.location, transform_direction(t, p) is
\* rotation * p whatever the scale and location, and Transform::IDENTITY
\* leaves every point unchanged (each within 0.001).
C16_TransformPointVectorDirection ==
    /\ op = "transform_vector" => NearVector(res, RotateScaled(arg.t, arg.p))
    /\ op = "transform_point" =>
          /\ NearVector(res, VecAdd(transform_vector(arg.t, arg.p),
                                    arg.t.location))
          /\ arg.t = IDENTITY => res = arg.p
    /\ op = "transform_direction" =>
          /\ NearVector(res, RotateScaled([arg.t EXCEPT !.scale = VecONE],
                                          arg.p))
          /\ res = transform_direction(
                      Transform(VecZERO, arg.t.rotation, VecONE), arg.p)

\* A point off the origin was moved by a transform that turns, scales
\* unevenly and translates.
C16_Witness ==
    /\ op = "transform_point"
    /\ arg.t.location # VecZERO
    /\ arg.t.scale = Vec(Fx(1), Fx(2), Fx(1))
    /\ arg.t.rotation.z # 0
    /\ arg.p = Vec(Fx(1), Fx(2), Fx(3))
    /\ res # arg.p

-----------------------------------------------------------------------------
(***************************************************************************)
(* Transform::is_nearly_equal, checked under SpecXfEq                      *)
(***************************************************************************)

QuatDot(q, p) ==
    FxMul(q.x, p.x) + FxMul(q.y, p.y) + FxMul(q.z, p.z) + FxMul(q.w, p.w)

\* The angle between the rotations q and p, 2 * acos(|q . p|) radians, is at
\* most tolerance (the products are compared with 2^-16 of slack for the
\* rounding of the quaternions)
AngularDistanceWithin(q, p, tolerance) ==
    Abs(QuatDot(q, p)) + (ONE \div 2^16) >= Cos(tolerance \div 2)

\* C17 (as claimed): is_nearly_equal(a, b, tolerance) is true iff the
\* location distance, the scale distance and the angular distance between
\* the two rotations are each within tolerance; two transforms whose
\* rotations are q and -q with equal location and scale are nearly equal.
C17_NearlyEqualByAngle ==
    op = "is_nearly_equal" =>
        res = (/\ VecLength(VecSub(arg.a.location, arg.b.location))
                     <= arg.tolerance
               /\ VecLength(VecSub(arg.a.scale, arg.b.scale)) <= arg.tolerance
               /\ AngularDistanceWithin(arg.a.rotation, arg.b.rotation,
                                        arg.tolerance))

\* The same for two transforms that hold the same quaternion.
NearlyEqualOfSameQuaternion ==
    (op = "is_nearly_equal" /\ arg.a.rotation = arg.b.rotation) =>
        res = (/\ VecLength(VecSub(arg.a.location, arg.b.location))
                     <= arg.tolerance
               /\ VecLength(VecSub(arg.a.scale, arg.b.scale)) <= arg.tolerance
               /\ AngularDistanceWithin(arg.a.rotation, arg.b.rotation,
                                        arg.tolerance))

-----------------------------------------------------------------------------
(***************************************************************************)
(* BoundingSphere::from_points, checked under SpecSphereOfPoints           *)
(***************************************************************************)

\* C18 (as claimed): for every non-empty list of finite points,
\* from_points has its center at the center of the points' bounding box
\* and its radius equal to the largest distance from that center to a
\* point, so contains_point(p) holds for every p of the list; for the
\* empty list it returns center zero and radius 0.
C18_SphereContainsItsPoints ==
    op = "BoundingSphere::from_points" =>
        IF arg.points = <<>> THEN res = BoundingSphere(DVec3ZERO, FlZero)
        ELSE /\ res.center = FlBoxCenter(FlBoxFromPoints(arg.points))
             /\ \E i \in 1..Len(arg.points) :
                   res.radius = length(DVec3Sub(arg.points[i], res.center))
             /\ \A i \in 1..Len(arg.points) :
                   ~FlLt(res.radius,
                         length(DVec3Sub(arg.points[i], res.center)))
             /\ \A i \in 1..Len(arg.points) :
                   Sphere_contains_point(res, arg.points[i])

\* The same without the containment: center and radius are as stated.
SphereCenterAndRadius ==
    op = "BoundingSphere::from_points" =>
        IF arg.points = <<>> THEN res = BoundingSphere(DVec3ZERO, FlZero)
        ELSE /\ res.center = FlBoxCenter(FlBoxFromPoints(arg.points))
             /\ \E i \in 1..Len(arg.points) :
                   res.radius = length(DVec3Sub(arg.points[i], res.center))
             /\ \A i \in 1..Len(arg.points) :
                   ~FlLt(res.radius,
                         length(DVec3Sub(arg.points[i], res.center)))

-----------------------------------------------------------------------------
(***************************************************************************)
(* BoundingSphere::intersects_box, checked under SpecSphereBox             *)
(***************************************************************************)

\* C19: for every sphere with radius >= 0 and every valid box,
\* intersects_box is true iff some point contained in the box is also
\* contained in the sphere (boundaries included).  The boxes and centers
\* have whole coordinates, so the box point nearest to the center is among
\* the whole-coordinate points tried.
C19_SphereIntersectsBox ==
    (op = "intersects_box" /\ is_valid(arg.bbox)) =>
        (res <=> \E q \in Points :
                    /\ contains_point(arg.bbox, q)
                    /\ BoundingSphere_contains_point(arg.sphere, q))

\* A sphere whose center is outside a box with volume reaches the box, and
\* one of the same center does not.
C19_Witness ==
    /\ op = "intersects_box"
    /\ is_valid(arg.bbox)
    /\ ~is_empty(arg.bbox)
    /\ ~contains_point(arg.bbox, arg.sphere.center)
    /\ res
    /\ ~intersects_box(FxSphere(arg.sphere.center, ONE \div 2), arg.bbox)

-----------------------------------------------------------------------------
(***************************************************************************)
(* BoundingSphere::transform, checked under SpecSphereTransform            *)
(***************************************************************************)

\* Directions from the center: the axes and two slanted ones
ProbeDirections ==
    {DVec3(FlOne, FlZero, FlZero), DVec3(FlZero, FlInt(-1), FlZero),
     DVec3(FlZero, FlZero, FlOne),
     DVec3(FlRatio(1, 3, 5, 0), FlRatio(1, 4, 5, 0), FlZero),
     DVec3(FlZero, FlRatio(-1, 7, 25, 0), FlRatio(1, 24, 25, 0))}

\* Points of the sphere: on the rays of ProbeDirections at the fraction k
\* of the radius
PointsAtFraction(sphere, k) ==
    {DVec3Add(sphere.center, DVec3Scale(u, FlMul(sphere.radius, k))) :
        u \in ProbeDirections}

MaxAbsScale(t) ==
    FlMax2(FlMax2(FlAbs(t.scale.x), FlAbs(t.scale.y)), FlAbs(t.scale.z))

\* C20 (as claimed): for every sphere with radius >= 0, every transform t
\* and every point p contained in the sphere, sphere.transform(t) contains
\* t.transform_point(p); its center is t.transform_point(center) and its
\* radius is radius * max(|scale.x|, |scale.y|, |scale.z|).
C20_SphereTransformCovers ==
    op = "BoundingSphere::transform" =>
        /\ res.center = Fl_transform_point(arg.t, arg.sphere.center)
        /\ res.radius = FlMul(arg.sphere.radius, MaxAbsScale(arg.t))
        /\ \A p \in PointsAtFraction(arg.sphere, FlOne)
                    \cup PointsAtFraction(arg.sphere, FlHalf) :
              Sphere_contains_point(arg.sphere, p) =>
                 Sphere_contains_point(res, Fl_transform_point(arg.t, p))

\* The same for the points at half the radius from the center only.
SphereTransformCoversInterior ==
    op = "BoundingSphere::transform" =>
        /\ res.center = Fl_transform_point(arg.t, arg.sphere.center)
        /\ res.radius = FlMul(arg.sphere.radius, MaxAbsScale(arg.t))
        /\ \A p \in PointsAtFraction(arg.sphere, FlHalf) :
              Sphere_contains_point(arg.sphere, p) =>
                 Sphere_contains_point(res, Fl_transform_point(arg.t, p))

-----------------------------------------------------------------------------
(***************************************************************************)
(* BoundingBox::closest_point_to and distance_to_point, checked under      *)
(* SpecBoxPoint                                                            *)
(***************************************************************************)

ClampedPerAxis(b, p) ==
    DVec3(FlClamp(p.x, b.min.x, b.max.x), FlClamp(p.y, b.min.y, b.max.y),
          FlClamp(p.z, b.min.z, b.max.z))

\* C21 (as claimed): for every valid box and point p, closest_point_to(p) is
\* p clamped per axis to [min, max], is contained in the box, and equals p
\* iff the box contains p; distance_to_point(p) is the distance from p to
\* that clamped point and is 0 iff contains_point(p).
C21_BoxClosestPointAndDistance ==
    /\ op = "BoundingBox::closest_point_to" =>
          /\ res = ClampedPerAxis(arg.b, arg.point)
          /\ Fl_contains_point(arg.b, res)
          /\ (res = arg.point) <=> Fl_contains_point(arg.b, arg.point)
    /\ op = "BoundingBox::distance_to_point" =>
          /\ res = length(DVec3Sub(arg.point,
                                   ClampedPerAxis(arg.b, arg.point)))
          /\ FlIsZero(res) <=> Fl_contains_point(arg.b, arg.point)

\* The same for the points that are not outside the box by a difference
\* whose square underflows.
BoxDistanceWithoutUnderflow ==
    LET d == DVec3Sub(arg.point, ClampedPerAxis(arg.b, arg.point))
    IN  /\ op = "BoundingBox::closest_point_to" =>
              /\ res = ClampedPerAxis(arg.b, arg.point)
              /\ Fl_contains_point(arg.b, res)
              /\ (res = arg.point) <=> Fl_contains_point(arg.b, arg.point)
        /\ (op = "BoundingBox::distance_to_point"
               /\ (IsZeroVector(d) \/ ~FlIsZero(length_squared(d)))) =>
              /\ res = length(d)
              /\ FlIsZero(res) <=> Fl_contains_point(arg.b, arg.point)

-----------------------------------------------------------------------------
(***************************************************************************)
(* Plane, checked under SpecPlane                                          *)
(***************************************************************************)

NearZero(d) == Abs(d) <= NearTolerance

UnitNormal(plane) == Abs(VecLength(plane.normal) - ONE) <= NearTolerance

\* C22: for every plane whose normal is of unit length, as built by
\* from_point_normal or by from_three_points on points not on one line, and
\* every point p: project_point(p) has signed distance 0 to the plane and
\* projecting it again gives the same point; the points given to the
\* constructor have signed distance 0; and distance_to_point(p) is
\* dot(normal, p) - distance. Distances and points are compared within 0.001.
C22_PlaneProjection ==
    /\ op = "Plane::from_point_normal" =>
          /\ UnitNormal(res)
          /\ NearZero(Plane_distance_to_point(res, arg.point))
    /\ op = "Plane::from_three_points" =>
          /\ UnitNormal(res)
          /\ NearZero(Plane_distance_to_point(res, arg.p1))
          /\ NearZero(Plane_distance_to_point(res, arg.p2))
          /\ NearZero(Plane_distance_to_point(res, arg.p3))
    /\ op = "Plane::distance_to_point" =>
          res = VecDot(arg.plane.normal, arg.point) - arg.plane.distance
    /\ (op = "Plane::project_point" /\ UnitNormal(arg.plane)) =>
          /\ NearZero(Plane_distance_to_point(arg.plane, res))
          /\ NearVector(Plane_project_point(arg.plane, res), res)

\* A point off a slanted plane has been projected onto it.
C22_Witness ==
    /\ op = "Plane::project_point"
    /\ UnitNormal(arg.plane)
    /\ arg.plane.normal.x # 0
    /\ arg.plane.normal.y # 0
    /\ ~NearZero(Plane_distance_to_point(arg.plane, arg.point))
    /\ ~NearVector(res, arg.point)
    /\ NearZero(Plane_distance_to_point(arg.plane, res))

-----------------------------------------------------------------------------
(***************************************************************************)
(* lerp_rotator, checked under SpecLerp                                    *)
(***************************************************************************)

\* d is a signed difference from x to y of magnitude at most 180: it
\* differs from y - x by whole turns
ShortestDelta(x, y, d) ==
    /\ Abs(d) <= Fx(180)
    /\ (d - (y - x)) % Fx(360) = 0

\* r is x moved by alpha times a shortest signed difference from x to y
LerpOfAxis(x, y, alpha, r) ==
    /\ r = x + FxMul(alpha, normalize_angle(y - x))
    /\ ShortestDelta(x, y, normalize_angle(y - x))

\* C23: lerp_rotator interpolates each axis on its own along the shortest
\* angular path: on each axis the result is a.axis + alpha *
\* normalize_angle(b.axis - a.axis), where the difference has magnitude at
\* most 180 and is congruent to b.axis - a.axis modulo 360; alpha = 0 returns
\* a exactly, and alpha = 1 returns an angle congruent to b.axis modulo 360.
C23_LerpRotatorShortestPath ==
    op = "lerp_rotator" =>
        /\ LerpOfAxis(arg.a.pitch, arg.b.pitch, arg.alpha, res.pitch)
        /\ LerpOfAxis(arg.a.yaw, arg.b.yaw, arg.alpha, res.yaw)
        /\ LerpOfAxis(arg.a.roll, arg.b.roll, arg.alpha, res.roll)
        /\ arg.alpha = 0 => res = arg.a
        /\ arg.alpha = ONE =>
              /\ (res.pitch - arg.b.pitch) % Fx(360) = 0
              /\ (res.yaw - arg.b.yaw) % Fx(360) = 0
              /\ (res.roll - arg.b.roll) % Fx(360) = 0

\* From pitch 350 to pitch 10 at alpha = 1: the result is 370, which is
\* congruent to 10 and is not 10.
C23_Witness ==
    /\ op = "lerp_rotator"
    /\ arg.alpha = ONE
    /\ arg.a.pitch = Fx(350)
    /\ arg.b.pitch = Fx(10)
    /\ res.pitch = Fx(370)
    /\ res.pitch # arg.b.pitch

-----------------------------------------------------------------------------
(***************************************************************************)
(* BoundingBox::expand_to_include_box on valid boxes, checked under        *)
(* SpecBox                                                                 *)
(***************************************************************************)

\* C24 (as claimed): for all valid boxes a and b (min <= max on every axis,
\* single-point and flat boxes included), a.expand_to_include_box(b)
\* includes both: every point contained in a or in b is contained in the
\* result.
C24_ExpandIncludesBothBoxes ==
    (op = "expand_to_include_box" /\ is_valid(arg.a) /\ is_valid(arg.b)) =>
        \A p \in Points :
            (contains_point(arg.a, p) \/ contains_point(arg.b, p))
                => contains_point(res, p)

\* The same for the boxes with positive extent on every axis.
ExpandIncludesBoxesWithVolume ==
    (op = "expand_to_include_box" /\ is_valid(arg.a) /\ is_valid(arg.b)
        /\ ~is_empty(arg.a) /\ ~is_empty(arg.b)) =>
        \A p \in Points :
            (contains_point(arg.a, p) \/ contains_point(arg.b, p))
                => contains_point(res, p)

-----------------------------------------------------------------------------
(***************************************************************************)
(* LineSegment::closest_points_to_segment, checked under SpecSegmentPair   *)
(***************************************************************************)

\* The points of seg at the eighths of its length
SegmentSamples(seg) ==
    {FxSegment_lerp(seg, (k * ONE) \div 8) : k \in 0..8}

\* C25 (as claimed): closest_points_to_segment(other) returns a point p of
\* self and a point q of other whose distance is the least distance between
\* a point of self and a point of other: no sampled pair is nearer (within
\* 0.001).
C25_ClosestPointsBetweenSegments ==
    op = "closest_points_to_segment" =>
        \A a \in SegmentSamples(arg.seg), b \in SegmentSamples(arg.other) :
            VecLength(VecSub(res[1], res[2]))
                <= VecLength(VecSub(a, b)) + NearTolerance

\* What the code does give: p is the point of self nearest to the center of
\* other, and q is the point of other nearest to p.
ClosestPointsFromCenter ==
    op = "closest_points_to_segment" =>
        /\ \A a \in SegmentSamples(arg.seg) :
              VecLength(VecSub(res[1], FxSegment_center(arg.other)))
                 <= VecLength(VecSub(a, FxSegment_center(arg.other)))
                    + NearTolerance
        /\ \A b \in SegmentSamples(arg.other) :
              VecLength(VecSub(res[1], res[2]))
                 <= VecLength(VecSub(res[1], b)) + NearTolerance

-----------------------------------------------------------------------------
(***************************************************************************)
(* RepMovement, checked under SpecRep                                      *)
(***************************************************************************)

\* The resolver is absent, or does not know the base of m
ResolverGivesNone(m, base_transform_fn) ==
    \/ base_transform_fn = None
    \/ /\ m.location_base # None
       /\ base_transform_fn[1][m.location_base[1]] = None

\* C26: from RepMovement::new() or from_transform(), after any sequence of
\* set_location_base, clear_location_base, set_server_frame and
\* set_simulated calls, has_location_base is true iff location_base is Some,
\* relative_location is zero whenever has_location_base is false, and
\* get_world_location returns location whenever there is no base or the
\* resolver is absent or returns None.
C26_LocationBaseFlagAndPayload ==
    /\ res.self.has_location_base <=> res.self.location_base # None
    /\ ~res.self.has_location_base => res.self.relative_location = VecZERO
    /\ (op = "get_world_location"
          /\ (\/ ~res.self.has_location_base
              \/ ResolverGivesNone(res.self, arg.base_transform_fn)))
         => res.ret = res.self.location

\* An object away from the origin, its server frame set, has no base, and
\* its world location is asked with a resolver that knows every base.
C26_Witness ==
    /\ op = "get_world_location"
    /\ ~res.self.has_location_base
    /\ res.self.location_base = None
    /\ res.self.server_frame # 0
    /\ res.self.location # VecZERO
    /\ arg.base_transform_fn # None
    /\ \A g \in Guids : arg.base_transform_fn[1][g] # None
    /\ res.ret = res.self.location

-----------------------------------------------------------------------------
(***************************************************************************)
(* GameSessionInfo, checked under SpecSession                              *)
(***************************************************************************)

\* What add_player, remove_player and the two tests return
SessionCallsAsDescribed ==
    /\ op = "add_player" =>
          /\ res.ret = FALSE <=> is_full(arg.self)
          /\ res.ret = FALSE => res.self = arg.self
          /\ res.ret = TRUE =>
                res.self.current_players = arg.self.current_players + 1
    /\ op = "remove_player" =>
          /\ res.ret = FALSE <=> arg.self.current_players = 0
          /\ res.ret = FALSE => res.self = arg.self
          /\ res.ret = TRUE =>
                res.self.current_players = arg.self.current_players - 1
    /\ has_available_slots(res.self) = ~is_full(res.self)
    /\ op = "is_full" => res.ret = is_full(res.self)
    /\ op = "has_available_slots" => res.ret = ~is_full(res.self)

\* C27 (as claimed): for a GameSessionInfo created by new(.., max_players)
\* with any i32 max_players, after any sequence of add_player and
\* remove_player calls 0 <= current_players <= max_players; add_player
\* returns false and leaves current_players unchanged exactly when
\* is_full(), remove_player returns false and leaves it unchanged exactly
\* when current_players = 0, and has_available_slots() = !is_full().
C27_PlayerCountWithinMax ==
    /\ 0 <= res.self.current_players
    /\ res.self.current_players <= res.self.max_players
    /\ SessionCallsAsDescribed

\* The same for the sessions created with max_players >= 0, and the
\* behaviour of the calls for every session.
PlayerCountWithinNonNegativeMax ==
    /\ 0 <= res.self.current_players
    /\ res.self.max_players >= 0 =>
          res.self.current_players <= res.self.max_players
    /\ SessionCallsAsDescribed

-----------------------------------------------------------------------------
(***************************************************************************)
(* Version, checked under SpecVersion                                      *)
(***************************************************************************)

\* The number a piece stands for, or -1 when it is no u16
PieceNumber(piece) ==
    CASE piece = <<"7">> -> 7
      [] piece = <<"0", "1">> -> 1
      [] piece = <<"+", "1">> -> 1
      [] piece = <<"6", "5", "5", "3", "5">> -> 65535
      [] OTHER -> -1

FieldNames ==
    <<"Invalid major version", "Invalid minor version",
      "Invalid patch version", "Invalid build number">>

\* The first piece that is no u16, or 0 when all are
FirstBadPiece(pieces) ==
    IF \A i \in 1..Len(pieces) : PieceNumber(pieces[i]) >= 0 THEN 0
    ELSE CHOOSE i \in 1..Len(pieces) :
            /\ PieceNumber(pieces[i]) < 0
            /\ \A j \in 1..(i - 1) : PieceNumber(pieces[j]) >= 0

\* C28: for every Version v (build = 0, where the build is left out of the
\* text, included), Version::parse(&v.to_string()) is Ok(v); and for every
\* text that is not 3 or 4 u16 fields separated by dots, parse returns an
\* Err that names what failed (the format, or the first of major, minor,
\* patch, build that is no u16).
C28_VersionTextRoundTrip ==
    /\ op = "Version::parse(&v.to_string())" =>
          res.tag = "Ok" /\ res.value = arg.v
    /\ op = "Version::to_string" =>
          Len(Split(res, 1, <<>>)) = IF arg.v.build = 0 THEN 3 ELSE 4
    /\ (op = "Version::parse" /\ Len(arg.pieces) \notin {3, 4}) =>
          res.tag = "Err" /\ res.err = "Invalid version format"
    /\ (op = "Version::parse" /\ Len(arg.pieces) \in {3, 4}
          /\ FirstBadPiece(arg.pieces) # 0) =>
          /\ res.tag = "Err"
          /\ res.err = FieldNames[FirstBadPiece(arg.pieces)]
    /\ (op = "Version::parse" /\ Len(arg.pieces) \in {3, 4}
          /\ FirstBadPiece(arg.pieces) = 0) =>
          /\ res.tag = "Ok"
          /\ res.value.major = PieceNumber(arg.pieces[1])
          /\ res.value.minor = PieceNumber(arg.pieces[2])
          /\ res.value.patch = PieceNumber(arg.pieces[3])
          /\ res.value.build = IF Len(arg.pieces) = 4
                               THEN PieceNumber(arg.pieces[4]) ELSE 0

\* A version with the largest fields and a build number came back from its
\* text.
C28_Witness ==
    /\ op = "Version::parse(&v.to_string())"
    /\ arg.v.major = U16_MAX
    /\ arg.v.minor = 0
    /\ arg.v.build = 10
    /\ res.tag = "Ok"
    /\ res.value = arg.v

-----------------------------------------------------------------------------
(***************************************************************************)
(* Name, checked under SpecName                                            *)
(***************************************************************************)

NameOps ==
    {"Name::new", "Name::from", "Name::default", "serde_json::from_str",
     "Name::from_binary"}

\* C29 (as claimed): for every Name, however it was obtained (Name::new,
\* From, Default, or decoded from JSON or binary), hash() is the FNV-1a hash
\* of its value, and a Name decoded from its own encoding equals the
\* original (derived PartialEq: value and hash both equal).
C29_NameHashIsFnvOfValue ==
    /\ op \in NameOps => Name_hash(res) = calculate_hash(res.value)
    /\ op \in {"serde_json::from_str", "Name::from_binary"} => res = arg.name

\* The same for the constructors; and the FNV-1a values of "" and "a".
NameHashOfConstructors ==
    /\ op \in {"Name::new", "Name::from", "Name::default"} =>
          Name_hash(res) = calculate_hash(res.value)
    /\ op = "Name::default" => res.hash = FNV_OFFSET_BASIS
    /\ (op = "Name::new" /\ arg.value = <<97>>) =>
          res.hash = <<140, 236, 1, 134, 76, 220, 99, 175>>
    /\ op \in {"serde_json::from_str", "Name::from_binary"} =>
          res.value = arg.name.value /\ res.hash = U64Zero

-----------------------------------------------------------------------------
(***************************************************************************)
(* is_nearly_zero against get_safe_normal, checked under SpecVecZero       *)
(***************************************************************************)

NonNegativeTolerance(t) == is_finite(t) /\ (t.s = 1 \/ FlIsZero(t))

\* C30 (as claimed): for every finite vector v and tolerance >= 0, if
\* is_nearly_zero(v, tolerance) is true (length_squared(v) <= tolerance^2)
\* then get_safe_normal(v, tolerance) is the zero vector, at the boundary
\* length_squared(v) = tolerance^2 and for a v of length exactly 1 with
\* tolerance >= 1 as well.
C30_NearlyZeroHasZeroNormal ==
    /\ op = "is_nearly_zero" =>
          res = FlLe(length_squared(arg.v),
                     FlMul(arg.tolerance, arg.tolerance))
    /\ (op = "get_safe_normal" /\ AllFinite(arg.v)
          /\ NonNegativeTolerance(arg.tolerance)
          /\ is_nearly_zero(arg.v, arg.tolerance)) => IsZeroVector(res)

\* A vector of length 4 against the tolerance 4: nearly zero, and its safe
\* normal is not the zero vector.
NearlyZeroAtBoundary ==
    /\ op = "get_safe_normal"
    /\ arg.tolerance = FlRatio(1, 4, 1, 0)
    /\ FlEq(length_squared(arg.v), FlMul(arg.tolerance, arg.tolerance))
    /\ is_nearly_zero(arg.v, arg.tolerance)
    /\ ~IsZeroVector(res)

\* The same away from the two cases: the squared length is below the
\* squared tolerance and is not 1.
NearlyZeroBelowToleranceHasZeroNormal ==
    /\ op = "is_nearly_zero" =>
          res = FlLe(length_squared(arg.v),
                     FlMul(arg.tolerance, arg.tolerance))
    /\ (op = "get_safe_normal" /\ AllFinite(arg.v)
          /\ NonNegativeTolerance(arg.tolerance)
          /\ FlLt(length_squared(arg.v), FlMul(arg.tolerance, arg.tolerance))
          /\ ~FlEq(length_squared(arg.v), FlOne)) => IsZeroVector(res)

=============================================================================
